---- MODULE Spec2Model ----
(***************************************************************************)
(* GoRocky: the safety rule engine of the Go backend (runSafetyEngine),    *)
(* its JavaScript twin in the client, the client's reconciler              *)
(* (mergeWithRules, validateSchema) and the client's analyze pipeline.     *)
(*                                                                         *)
(* Texts are modelled as sequences of the segments that stand between the  *)
(* separators "," and ";"; numbers are integers; confidences are counted   *)
(* in units of 1/120 (0.6 = 72, 0.4 = 48, 1 - s/120 = 120 - s).            *)
(***************************************************************************)
EXTENDS Integers, Sequences, FiniteSets, TLC

VARIABLES
    ruleTable,   \* the rule table the backend evaluates (ruleDB)
    input,       \* the PatientData of the request (currentPatientData in the client)
    pc,          \* position of the computation
    result,      \* the DiagnosticResult returned by the backend engine
    other,       \* what the model call of the client returned (parsed JSON)
    clientResult, \* the client's result: after mergeWithRules, after validateSchema
    activeModel, \* the model the client calls: "mock", "gemini" or "openai"
    step,        \* the step the page shows: "intake", "processing" or "results"
    alertShown,  \* the alert analyze raised, "" while none
    reviewedPlan, \* what renderResults was given
    interactionsResp, \* what fetchInteractionChecks returned or threw
    reply,       \* what POST /api/diagnostics/mock answered: status and body
    baseList,    \* first argument of mergeInteractionLists
    incomingList, \* second argument of mergeInteractionLists
    mergedList,  \* what mergeInteractionLists(baseList, incomingList) returned
    remergedList, \* what merging mergedList with baseList once more returned
    reviewForm,  \* the fields of the review form when finalizeReview read them
    env          \* the environment of the server: DEFAULT_MODEL and the API keys

vars == <<ruleTable, input, pc, result, other, clientResult,
          activeModel, step, alertShown, reviewedPlan, interactionsResp,
          reply, baseList, incomingList, mergedList, remergedList,
          reviewForm, env>>

\* the review form before finalizeReview read it, the environment where
\* no request for the configuration is made
NoForm == [read |-> FALSE]

NoEnv == [set |-> FALSE]

listVars == <<baseList, incomingList, mergedList, remergedList>>

pageVars == <<activeModel, step, alertShown, reviewedPlan, interactionsResp>>

clientVars == <<other, clientResult, activeModel, step, alertShown, reviewedPlan,
                interactionsResp>>

(***************************************************************************)
(* Bounds of the model.                                                    *)
(***************************************************************************)
MaxMeds == 2          \* segments in the medication text
MaxAllergies == 1     \* segments in the allergy text
MaxConditions == 2    \* condition labels ticked
MaxOddFields == 1     \* fields of a model result that depart from a well-formed one
MaxListLen == 2       \* entries in an interaction list handed to mergeInteractionLists

(***************************************************************************)
(* Generic helpers.                                                        *)
(***************************************************************************)
Max(a, b) == IF a >= b THEN a ELSE b

Min(a, b) == IF a <= b THEN a ELSE b

RECURSIVE FlatMap(_, _)
FlatMap(F(_), s) ==
    IF s = <<>> THEN <<>> ELSE F(Head(s)) \o FlatMap(F, Tail(s))

RECURSIVE SumSeq(_, _)
SumSeq(F(_), s) ==
    IF s = <<>> THEN 0 ELSE F(Head(s)) + SumSeq(F, Tail(s))

RECURSIVE JoinWith(_, _)
JoinWith(sep, s) ==
    IF s = <<>> THEN ""
    ELSE IF Len(s) = 1 THEN s[1]
    ELSE s[1] \o sep \o JoinWith(sep, Tail(s))

Range(s) == {s[i] : i \in DOMAIN s}

\* the subsequences of s with at most n elements, order kept
RECURSIVE SubSeqsUpTo(_, _)
SubSeqsUpTo(s, n) ==
    IF s = <<>> \/ n = 0 THEN {<<>>}
    ELSE SubSeqsUpTo(Tail(s), n)
         \cup {<<Head(s)>> \o r : r \in SubSeqsUpTo(Tail(s), n - 1)}

(***************************************************************************)
(* String primitives on the vocabulary of the model.                       *)
(***************************************************************************)
\* strings.ToLower / String.prototype.toLowerCase
ToLower(s) ==
    CASE s = "Nitroglycerin" -> "nitroglycerin"
      [] s = " Tadalafil" -> " tadalafil"
      [] s = "Tadalafil" -> "tadalafil"
      [] s = "Amlodipine" -> "amlodipine"
      [] s = "Gemini" -> "gemini"
      [] s = "OPENAI" -> "openai"
      [] s = "None" -> "none"
      [] s = "Sildenafil" -> "sildenafil"
      [] s = "Isosorbide Dinitrate" -> "isosorbide dinitrate"
      [] s = "Pregnant" -> "pregnant"
      [] s = "Kidney Disease" -> "kidney disease"
      [] s = "Liver Disease" -> "liver disease"
      [] s = "Heart Disease" -> "heart disease"
      [] s = "Hypertension" -> "hypertension"
      [] s = "Current" -> "current"
      [] s = "Nitrates + PDE5i" -> "nitrates + pde5i"
      [] s = "NITRATES + PDE5I" -> "nitrates + pde5i"
      [] s = "Alpha-blocker + PDE5i" -> "alpha-blocker + pde5i"
      [] s = "Strong CYP3A4 inhibitor + PDE5i" -> "strong cyp3a4 inhibitor + pde5i"
      [] s = "Warfarin + Aspirin" -> "warfarin + aspirin"
      [] s = "Risk of profound hypotension; avoid co-administration." ->
             "risk of profound hypotension; avoid co-administration."
      [] s = "Additive hypotension; separate dosing and start low." ->
             "additive hypotension; separate dosing and start low."
      [] s = "Higher PDE5i levels; use lowest dose and monitor." ->
             "higher pde5i levels; use lowest dose and monitor."
      [] s = "Bleeding risk" -> "bleeding risk"
      [] s = "A+B" -> "a+b"
      [] s = "C+D" -> "c+d"
      [] OTHER -> s

\* strings.TrimSpace / String.prototype.trim
TrimSpace(s) ==
    CASE s = " tadalafil" -> "tadalafil"
      [] s = " Tadalafil" -> "Tadalafil"
      [] s = " " -> ""
      [] OTHER -> s

\* strings.Contains(t, drug) / t.includes(drug), for lowercase trimmed t
Contains(t, drug) ==
    \/ t = drug
    \/ <<t, drug>> \in {<<"isosorbide dinitrate", "isosorbide">>}

(***************************************************************************)
(* Drug classes and the rule table (src/Makefile:176-192).                 *)
(***************************************************************************)
pde5iClass == <<"sildenafil", "tadalafil", "vardenafil", "avanafil">>

nitrateClass == <<"nitroglycerin", "isosorbide", "isosorbide dinitrate", "isosorbide mononitrate">>

alphaBlockerClass == <<"tamsulosin", "doxazosin", "terazosin", "alfuzosin">>

cyp3a4Class == <<"ketoconazole", "itraconazole", "ritonavir", "cobicistat", "clarithromycin">>

Rule(id, type, severity, a, b, condition, requires, note) ==
    [id |-> id, type |-> type, severity |-> severity,
     match |-> [drugClassA |-> a, drugClassB |-> b, condition |-> condition,
                requiresDrugClass |-> requires],
     note |-> note]

ruleDB ==
    << Rule("nitrates+pde5i", "interaction", "HIGH", "nitrates", "pde5i", "", "",
            "Risk of profound hypotension; avoid co-administration."),
       Rule("alpha+pde5i", "interaction", "MEDIUM", "alphaBlockers", "pde5i", "", "",
            "Additive hypotension; separate dosing and start low."),
       Rule("cyp3a4+pde5i", "interaction", "MEDIUM", "cyp3a4Inhibitors", "pde5i", "", "",
            "Higher PDE5i levels; use lowest dose and monitor."),
       Rule("pregnancy+pde5i", "contra", "MEDIUM", "", "", "pregnant", "pde5i",
            "Safety in pregnancy not established; avoid PDE5 inhibitors."),
       Rule("renal+pde5i", "dosing", "MEDIUM", "", "", "kidney disease", "",
            "Max 2.5-5mg daily; monitor closely.") >>

severityWeight(sev) ==
    CASE sev = "HIGH" -> 40
      [] sev = "MEDIUM" -> 20
      [] sev = "LOW" -> 10
      [] OTHER -> 0

(***************************************************************************)
(* Helpers of the backend engine (src/Makefile:926-990).                   *)
(***************************************************************************)
normalizeList_NoLower(text) ==
    LET fields == SelectSeq(text, LAMBDA t : t # "")
        trimmed == [i \in DOMAIN fields |-> TrimSpace(fields[i])]
    IN SelectSeq(trimmed, LAMBDA t : t # "")

\* text is the sequence of segments between ',' and ';'
normalizeList(text) ==
    LET lowered == [i \in DOMAIN text |-> ToLower(text[i])]
        fields == SelectSeq(lowered, LAMBDA t : t # "")
        trimmed == [i \in DOMAIN fields |-> TrimSpace(fields[i])]
    IN SelectSeq(trimmed, LAMBDA t : t # "")

hasClassToken(tokens, class) ==
    \E i \in DOMAIN tokens : \E j \in DOMAIN class : Contains(tokens[i], class[j])

hasClassTokenByName(tokens, className) ==
    CASE className = "pde5i" -> hasClassToken(tokens, pde5iClass)
      [] className = "nitrates" -> hasClassToken(tokens, nitrateClass)
      [] className = "alphaBlockers" -> hasClassToken(tokens, alphaBlockerClass)
      [] className = "cyp3a4Inhibitors" -> hasClassToken(tokens, cyp3a4Class)
      [] OTHER -> FALSE

containsString(values, target) == \E i \in DOMAIN values : values[i] = target

hasSeverity(items, severity) == \E i \in DOMAIN items : items[i].severity = severity

hasSeverityContra(items, severity) == \E i \in DOMAIN items : items[i].severity = severity

lowerSlice(values) == [i \in DOMAIN values |-> ToLower(TrimSpace(values[i]))]

Interaction(pair, severity, note) == [pair |-> pair, severity |-> severity, note |-> note]

Contraindication(c, severity, note) == [conditionOrAllergy |-> c, severity |-> severity, note |-> note]

DosingConcern(factor, severity, rec) == [factor |-> factor, severity |-> severity, recommendation |-> rec]

If(cond, finding) == IF cond THEN <<finding>> ELSE <<>>

(***************************************************************************)
(* The backend engine, runSafetyEngine (src/Makefile:575-924).  The rule   *)
(* table is a parameter: the code evaluates whatever rows ruleDB holds.    *)
(***************************************************************************)
\* the flags computed at the top of the function (lines 576-602)
engineFlags(data) ==
    LET meds == normalizeList(data.medications)
        allergies == normalizeList(data.allergies)
        conditions == [i \in DOMAIN data.conditions |->
                          ToLower(TrimSpace(data.conditions[i]))]
    IN [meds |-> meds,
        conditions |-> conditions,
        hasPDE5i |-> hasClassToken(meds, pde5iClass),
        hasNitrates |-> hasClassToken(meds, nitrateClass),
        hasAlphaBlocker |-> hasClassToken(meds, alphaBlockerClass),
        hasCyp3a4 |-> hasClassToken(meds, cyp3a4Class),
        bpSys |-> data.bpSystolic,
        bpDia |-> data.bpDiastolic,
        bmi |-> data.bmi,
        age |-> data.age,
        smoking |-> ToLower(TrimSpace(data.smoking)),
        alcohol |-> ToLower(TrimSpace(data.alcohol)),
        exercise |-> ToLower(TrimSpace(data.exercise)),
        pregnant |-> containsString(conditions, "pregnant"),
        kidneyDisease |-> containsString(conditions, "kidney disease"),
        liverDisease |-> containsString(conditions, "liver disease"),
        heartDisease |-> containsString(conditions, "heart disease"),
        hypertension |-> containsString(conditions, "hypertension"),
        allergyToPde5i |-> hasClassToken(allergies, pde5iClass),
        allergyToNitrates |-> hasClassToken(allergies, nitrateClass)]

\* the three hard-coded interaction checks (lines 608-628)
hardInteractions(f) ==
    If(f.hasPDE5i /\ f.hasNitrates,
       Interaction("Nitrates + PDE5i", "HIGH",
                   "Risk of profound hypotension; avoid co-administration."))
    \o If(f.hasPDE5i /\ f.hasAlphaBlocker,
          Interaction("Alpha-blocker + PDE5i", "MEDIUM",
                      "Additive hypotension; separate dosing and start low."))
    \o If(f.hasPDE5i /\ f.hasCyp3a4,
          Interaction("Strong CYP3A4 inhibitor + PDE5i", "MEDIUM",
                      "Higher PDE5i levels; use lowest dose and monitor."))

\* a table loop whose interactions give way to the hard-coded checks
ruleInteractions_Deduplicated(f, table) == <<>>

\* the loop over the rule table (lines 630-659), one list per rule type
ruleInteractions(f, table) ==
    LET one(rule) ==
            If(/\ rule.type = "interaction"
               /\ hasClassTokenByName(f.meds, rule.match.drugClassA)
               /\ hasClassTokenByName(f.meds, rule.match.drugClassB),
               Interaction(rule.match.drugClassA \o "+" \o rule.match.drugClassB,
                           rule.severity, rule.note))
    IN FlatMap(one, table)

ruleContraindications(f, table) ==
    LET one(rule) ==
            LET condMatch == rule.match.condition # ""
                             /\ containsString(f.conditions, rule.match.condition)
                drugMatch == rule.match.requiresDrugClass = ""
                             \/ hasClassTokenByName(f.meds, rule.match.requiresDrugClass)
            IN If(rule.type = "contra" /\ condMatch /\ drugMatch,
                  Contraindication(rule.match.condition, rule.severity, rule.note))
    IN FlatMap(one, table)

ruleDosingConcerns(f, table) ==
    LET one(rule) ==
            If(/\ rule.type = "dosing"
               /\ rule.match.condition # ""
               /\ containsString(f.conditions, rule.match.condition),
               DosingConcern(rule.match.condition, rule.severity, rule.note))
    IN FlatMap(one, table)

\* a blood-pressure check that reads the systolic value only
bpContraindications_SystolicOnly(bpSys, bpDia) ==
    IF bpSys >= 170
    THEN <<Contraindication("Severely elevated BP", "HIGH",
                            "Uncontrolled hypertension; PDE5 inhibitors contraindicated.")>>
    ELSE IF bpSys >= 150
    THEN <<Contraindication("Elevated BP", "MEDIUM",
                            "Elevated blood pressure; use lowest dose and monitor.")>>
    ELSE <<>>

\* the blood-pressure check (lines 668-680)
bpContraindications(bpSys, bpDia) ==
    IF bpSys >= 170 \/ bpDia >= 110
    THEN <<Contraindication("Severely elevated BP", "HIGH",
                            "Uncontrolled hypertension; PDE5 inhibitors contraindicated.")>>
    ELSE IF bpSys >= 150 \/ bpDia >= 95
    THEN <<Contraindication("Elevated BP", "MEDIUM",
                            "Elevated blood pressure; use lowest dose and monitor.")>>
    ELSE <<>>

\* the hard-coded contraindication checks (lines 661-715)
hardContraindications(f) ==
    If(f.hasNitrates,
       Contraindication("Nitrate therapy", "HIGH",
           "Concurrent nitrate use contraindicates PDE5 inhibitors due to hypotension risk."))
    \o bpContraindications(f.bpSys, f.bpDia)
    \o If(f.allergyToPde5i,
          Contraindication("PDE5 inhibitor allergy", "HIGH", "Do not prescribe PDE5 inhibitors."))
    \o If(f.allergyToNitrates,
          Contraindication("Nitrate allergy", "HIGH", "Avoid nitrates and PDE5 co-prescribing."))
    \o If(f.pregnant,
          Contraindication("Pregnancy", "MEDIUM", "Safety not established; avoid PDE5 inhibitors."))
    \o If(f.heartDisease,
          Contraindication("Heart Disease", "MEDIUM",
                           "Assess hemodynamic reserve; prefer low dose or alternative."))
    \o If(f.hypertension,
          Contraindication("Hypertension", "MEDIUM", "Monitor BP; start low to avoid hypotension."))

\* a body-mass check whose obesity tier leaves the overweight concern in place
bmiConcerns_Both(bmi) ==
    (IF bmi >= 35
     THEN <<DosingConcern("Obesity (BMI >=35)", "MEDIUM",
                          "Start lowest dose; monitor cardiovascular tolerance.")>>
     ELSE <<>>)
    \o (IF bmi >= 30
        THEN <<DosingConcern("Overweight (BMI >=30)", "LOW",
                             "Start low; encourage weight management and monitoring.")>>
        ELSE <<>>)

\* the body-mass check (lines 738-750)
bmiConcerns(bmi) ==
    IF bmi >= 35
    THEN <<DosingConcern("Obesity (BMI >=35)", "MEDIUM",
                         "Start lowest dose; monitor cardiovascular tolerance.")>>
    ELSE IF bmi >= 30
    THEN <<DosingConcern("Overweight (BMI >=30)", "LOW",
                         "Start low; encourage weight management and monitoring.")>>
    ELSE <<>>

\* the hard-coded dosing checks (lines 717-771)
hardDosingConcerns(f) ==
    If(f.age >= 65,
       DosingConcern("Age >65", "MEDIUM", "Initiate at lowest dose; titrate cautiously."))
    \o If(f.kidneyDisease,
          DosingConcern("Renal impairment", "MEDIUM",
                        "Max 2.5mg-5mg daily; monitor for hypotension."))
    \o If(f.liverDisease,
          DosingConcern("Hepatic impairment", "MEDIUM",
                        "Use lowest dose; consider avoiding if severe."))
    \o bmiConcerns(f.bmi)
    \o If(f.smoking = "current",
          DosingConcern("Smoking", "LOW", "Counsel cessation; monitor CV risk with therapy."))
    \o If(f.alcohol = "heavy",
          DosingConcern("Heavy alcohol use", "MEDIUM",
                        "Avoid concurrent dosing; monitor BP and sedation risk."))
    \o If(f.exercise = "none",
          DosingConcern("Sedentary", "LOW", "Encourage activity; monitor cardiometabolic risk."))

\* the loops of lines 774-801: the first HIGH ends a loop, MEDIUM lifts LOW;
\* the loop over the dosing concerns looks for MEDIUM only
maxSeverityOf(interactions, contraindications, dosingConcerns) ==
    LET afterI == IF hasSeverity(interactions, "HIGH") THEN "HIGH"
                  ELSE IF hasSeverity(interactions, "MEDIUM") THEN "MEDIUM"
                  ELSE "LOW"
        afterC == IF afterI = "HIGH" THEN "HIGH"
                  ELSE IF hasSeverityContra(contraindications, "HIGH") THEN "HIGH"
                  ELSE IF afterI = "LOW" /\ hasSeverityContra(contraindications, "MEDIUM")
                       THEN "MEDIUM"
                  ELSE afterI
    IN IF afterC = "HIGH" THEN "HIGH"
       ELSE IF afterC = "LOW" /\ hasSeverity(dosingConcerns, "MEDIUM") THEN "MEDIUM"
       ELSE afterC

scoreOf_NoClamp(interactions, contraindications, dosingConcerns) ==
    LET w(x) == severityWeight(x.severity)
    IN 5 + SumSeq(w, interactions) + SumSeq(w, contraindications)
         + SumSeq(w, dosingConcerns)

\* lines 803-815
scoreOf(interactions, contraindications, dosingConcerns) ==
    LET w(x) == severityWeight(x.severity)
        score == 5 + SumSeq(w, interactions) + SumSeq(w, contraindications)
                   + SumSeq(w, dosingConcerns)
    IN IF score > 100 THEN 100 ELSE score

riskLevelOf_ScoreOnly(maxSeverity, score) ==
    IF maxSeverity = "HIGH" \/ score >= 60 THEN "HIGH"
    ELSE IF score >= 30 THEN "MEDIUM"
    ELSE "LOW"

\* lines 817-822
riskLevelOf(maxSeverity, score) ==
    IF maxSeverity = "HIGH" \/ score >= 60 THEN "HIGH"
    ELSE IF maxSeverity = "MEDIUM" \/ score >= 30 THEN "MEDIUM"
    ELSE "LOW"

\* lines 824-836
issuesOf(interactions, contraindications, dosingConcerns) ==
    LET fi(i) == <<"[" \o i.severity \o "] Interaction: " \o i.pair \o " - " \o i.note>>
        fc(c) == <<"[" \o c.severity \o "] Contraindication: " \o c.conditionOrAllergy
                   \o " - " \o c.note>>
        fd(d) == <<"[" \o d.severity \o "] Dosing: " \o d.factor \o " - " \o d.recommendation>>
        issues == FlatMap(fi, interactions) \o FlatMap(fc, contraindications)
                  \o FlatMap(fd, dosingConcerns)
    IN IF Len(issues) = 0 THEN <<"None">> ELSE issues

highBlockerOf_InteractionsOnly(interactions, contraindications) ==
    hasSeverity(interactions, "HIGH")

\* line 841
highBlockerOf(interactions, contraindications) ==
    hasSeverity(interactions, "HIGH") \/ hasSeverityContra(contraindications, "HIGH")

\* a dosing rule that forgets the hypertension condition
planDoseOf_NoHypertension(highBlocker, f) ==
    IF highBlocker
    THEN [medication |-> "None", dosage |-> "N/A", duration |-> "N/A"]
    ELSE IF \/ f.age >= 65 \/ f.kidneyDisease \/ f.liverDisease \/ f.hasAlphaBlocker
            \/ f.hasCyp3a4 \/ f.heartDisease
    THEN [medication |-> "Tadalafil", dosage |-> "2.5mg Daily", duration |-> "30 Days"]
    ELSE [medication |-> "Tadalafil", dosage |-> "5mg Daily", duration |-> "90 Days"]

\* lines 838-850: medication, dosage, duration
planDoseOf(highBlocker, f) ==
    IF highBlocker
    THEN [medication |-> "None", dosage |-> "N/A", duration |-> "N/A"]
    ELSE IF \/ f.age >= 65 \/ f.kidneyDisease \/ f.liverDisease \/ f.hasAlphaBlocker
            \/ f.hasCyp3a4 \/ f.hypertension \/ f.heartDisease
    THEN [medication |-> "Tadalafil", dosage |-> "2.5mg Daily", duration |-> "30 Days"]
    ELSE [medication |-> "Tadalafil", dosage |-> "5mg Daily", duration |-> "90 Days"]

\* lines 852-878
rationalePartsOf(medication, f) ==
    (IF medication = "None"
     THEN <<"Safety blockers present; pharmacotherapy deferred.">>
     ELSE <<"PDE5 inhibitor indicated; starting conservatively due to risk factors.">>)
    \o If(f.age >= 65, "Age >65")
    \o If(f.kidneyDisease, "Renal impairment")
    \o If(f.liverDisease, "Hepatic impairment")
    \o If(f.hasAlphaBlocker, "Alpha-blocker co-therapy")
    \o If(f.hasCyp3a4, "CYP3A4 inhibitor present")
    \o If(f.heartDisease, "Cardiovascular history")
    \o If(f.pregnant, "Pregnancy")

\* a confidence without its floor
confidenceOf_NoFloor(score) == 120 - score

\* lines 880-883, in units of 1/120
confidenceOf(score) ==
    LET confidence == 120 - score
    IN IF confidence < 72 THEN 72 ELSE confidence

\* lines 885-897: alternatives and plan confidence
alternativesOf(medication) ==
    IF medication = "None"
    THEN << [option |-> "Vacuum erection device", confidence |-> 78],
            [option |-> "Specialist referral", confidence |-> 84] >>
    ELSE << [option |-> "Sildenafil 25mg on demand", confidence |-> 84],
            [option |-> "Vardenafil 10mg", confidence |-> 78],
            [option |-> "Behavioral therapy", confidence |-> 72] >>

planConfidenceOf(medication, confidence) ==
    IF medication = "None" THEN 48 ELSE confidence

zeroFindingsOverride_Skipped(allFindings, res) == res

\* lines 918-921
zeroFindingsOverride(allFindings, res) ==
    IF allFindings = 0
    THEN [res EXCEPT !.riskScore = 12, !.riskLevel = "LOW"]
    ELSE res

runSafetyEngineWith(table, data) ==
    LET f == engineFlags(data)
        interactions == hardInteractions(f) \o ruleInteractions(f, table)
        contraindications == ruleContraindications(f, table) \o hardContraindications(f)
        dosingConcerns == ruleDosingConcerns(f, table) \o hardDosingConcerns(f)
        allFindings == Len(interactions) + Len(contraindications) + Len(dosingConcerns)
        maxSeverity == maxSeverityOf(interactions, contraindications, dosingConcerns)
        score == scoreOf(interactions, contraindications, dosingConcerns)
        riskLevel == riskLevelOf(maxSeverity, score)
        dose == planDoseOf(highBlockerOf(interactions, contraindications), f)
        confidence == confidenceOf(score)
        res == [riskScore |-> score,
                riskLevel |-> riskLevel,
                issues |-> issuesOf(interactions, contraindications, dosingConcerns),
                interactions |-> interactions,
                contraindications |-> contraindications,
                dosingConcerns |-> dosingConcerns,
                plan |-> [medication |-> dose.medication,
                          dosage |-> dose.dosage,
                          duration |-> dose.duration,
                          rationale |-> JoinWith("; ", rationalePartsOf(dose.medication, f))],
                alternatives |-> alternativesOf(dose.medication),
                confidenceScore |-> confidence,
                recommendationConfidence |->
                    [plan |-> planConfidenceOf(dose.medication, confidence)],
                source |-> "rules"]
    IN zeroFindingsOverride(allFindings, res)

\* mockAnalyze (src/Makefile:571-573) with the table the process holds
mockAnalyze(data) == runSafetyEngineWith(ruleDB, data)

(***************************************************************************)
(* The intakes of the model.                                               *)
(***************************************************************************)
MedVocab == <<"Nitroglycerin", " Tadalafil", "tamsulosin", "ritonavir", "aspirin">>

AllergyVocab == <<"Sildenafil", "Isosorbide Dinitrate">>

ConditionVocab == <<"Pregnant", "Kidney Disease", "Liver Disease", "Heart Disease", "Hypertension">>

Ages == {40, 65}

Bmis == {22, 32, 36}

BloodPressures == {<<140, 90>>, <<150, 90>>, <<180, 115>>}

SmokingValues == {"never", "Current"}

AlcoholValues == {"moderate", "heavy"}

ExerciseValues == {"regular", "none"}

PatientData(meds, allergies, conditions, age, bmi, bp, smoking, alcohol, exercise) ==
    [medications |-> meds, allergies |-> allergies, conditions |-> conditions,
     age |-> age, bmi |-> bmi, bpSystolic |-> bp[1], bpDiastolic |-> bp[2],
     smoking |-> smoking, alcohol |-> alcohol, exercise |-> exercise]

\* the intake that triggers every table rule and every hard-coded check
EverythingAtOnce ==
    PatientData(<<"Nitroglycerin", " Tadalafil", "tamsulosin", "ritonavir">>,
                <<"Sildenafil", "Isosorbide Dinitrate">>,
                ConditionVocab, 65, 36, <<180, 115>>, "Current", "heavy", "none")

PatientInputs ==
    { PatientData(m, a, c, age, bmi, bp, s, al, e) :
        m \in SubSeqsUpTo(MedVocab, MaxMeds),
        a \in SubSeqsUpTo(AllergyVocab, MaxAllergies),
        c \in SubSeqsUpTo(ConditionVocab, MaxConditions),
        age \in Ages, bmi \in Bmis, bp \in BloodPressures,
        s \in SmokingValues, al \in AlcoholValues, e \in ExerciseValues }
    \cup {EverythingAtOnce}

NoResult == [source |-> "none"]

(***************************************************************************)
(* The backend evaluates one intake.                                       *)
(***************************************************************************)
Init ==
    /\ ruleTable = ruleDB
    /\ input \in PatientInputs
    /\ pc = "intake"
    /\ result = NoResult
    /\ other = [t |-> "undefined"]
    /\ clientResult = [t |-> "undefined"]
    /\ activeModel = "mock"
    /\ step = "intake"
    /\ alertShown = ""
    /\ reviewedPlan = [t |-> "null"]
    /\ interactionsResp = [t |-> "undefined"]
    /\ reply = [status |-> 0]
    /\ reviewForm = NoForm
    /\ env = NoEnv
    /\ baseList = <<>>
    /\ incomingList = <<>>
    /\ mergedList = <<>>
    /\ remergedList = <<>>

\* mockAnalyze(data) = runSafetyEngine(data) on the table of the process
MockAnalyze ==
    /\ pc = "intake"
    /\ result' = runSafetyEngineWith(ruleTable, input)
    /\ pc' = "done"
    /\ UNCHANGED <<reviewForm, env, reply, listVars, ruleTable, input, clientVars>>

Next == MockAnalyze

Spec == Init /\ [][Next]_vars

(***************************************************************************)
(* Severities of a result.                                                 *)
(***************************************************************************)
AnyHigh(list) == \E i \in DOMAIN list : list[i].severity = "HIGH"

Blocked(r) == AnyHigh(r.interactions) \/ AnyHigh(r.contraindications)

\* C1: the backend engine returns medication "None" exactly when an
\* interaction or a contraindication of the same result is HIGH, then with
\* dosage and duration "N/A"; otherwise the medication is "Tadalafil".
C1_NoneIffHighBlocker ==
    pc = "done" =>
        /\ (result.plan.medication = "None") <=> Blocked(result)
        /\ Blocked(result) =>
              result.plan.dosage = "N/A" /\ result.plan.duration = "N/A"
        /\ ~Blocked(result) => result.plan.medication = "Tadalafil"

C1_Witness ==
    /\ pc = "done"
    /\ Blocked(result)
    /\ result.plan.medication = "None"

\* C3: a nitrate in the medication text gives riskLevel HIGH and medication
\* "None"; with a PDE5 inhibitor beside it the interactions hold a HIGH entry.
NitrateWords == {"Nitroglycerin"}

Pde5Words == {" Tadalafil"}

Mentions(text, words) == \E i \in DOMAIN text : text[i] \in words

C3_NitrateBlocks ==
    (pc = "done" /\ Mentions(input.medications, NitrateWords)) =>
        /\ result.riskLevel = "HIGH"
        /\ result.plan.medication = "None"
        /\ Mentions(input.medications, Pde5Words) => AnyHigh(result.interactions)

C3_Witness ==
    /\ pc = "done"
    /\ input.medications = <<"Nitroglycerin", " Tadalafil">>
    /\ AnyHigh(result.interactions)
    /\ result.plan.medication = "None"

\* the sum the score is clamped from, recomputed from the lists of a result
Weight(sev) == IF sev = "HIGH" THEN 40 ELSE IF sev = "MEDIUM" THEN 20 ELSE 10

RECURSIVE WeightSum(_)
WeightSum(list) ==
    IF list = <<>> THEN 0 ELSE Weight(Head(list).severity) + WeightSum(Tail(list))

RawScore(r) ==
    5 + WeightSum(r.interactions) + WeightSum(r.contraindications)
      + WeightSum(r.dosingConcerns)

FindingCount(r) == Len(r.interactions) + Len(r.contraindications) + Len(r.dosingConcerns)

\* C4: the riskScore returned by the engine is an integer in [0,100], also
\* for the intake that triggers every rule and every check at once.
C4_ScoreInRange ==
    pc = "done" => result.riskScore \in 0..100

C4_Witness ==
    /\ pc = "done"
    /\ input = EverythingAtOnce
    /\ RawScore(result) > 100
    /\ result.riskScore = 100

\* C5: with no finding at all the engine returns riskScore 12, riskLevel LOW
\* and issues ["None"]; with a finding the score is the clamped sum.
C5_ZeroFindingsOverride ==
    pc = "done" =>
        /\ FindingCount(result) = 0 =>
              /\ result.riskScore = 12
              /\ result.riskLevel = "LOW"
              /\ result.issues = <<"None">>
        /\ FindingCount(result) > 0 =>
              result.riskScore = (IF RawScore(result) > 100 THEN 100 ELSE RawScore(result))

C5_Witness ==
    /\ pc = "done"
    /\ FindingCount(result) = 0
    /\ result.riskScore = 12

\* the highest severity of the three lists of a result
AllFindings(r) ==
    [i \in 1..Len(r.interactions) |-> r.interactions[i].severity]
    \o [i \in 1..Len(r.contraindications) |-> r.contraindications[i].severity]
    \o [i \in 1..Len(r.dosingConcerns) |-> r.dosingConcerns[i].severity]

TopSeverity(r) ==
    IF \E i \in DOMAIN AllFindings(r) : AllFindings(r)[i] = "HIGH" THEN "HIGH"
    ELSE IF \E i \in DOMAIN AllFindings(r) : AllFindings(r)[i] = "MEDIUM" THEN "MEDIUM"
    ELSE "LOW"

\* C6: with a finding, riskLevel is HIGH iff the top severity is HIGH or the
\* score is at least 60, else MEDIUM iff the top severity is MEDIUM or the
\* score is at least 30, else LOW; one MEDIUM finding (score 25) gives MEDIUM.
C6_RiskLevelRule ==
    (pc = "done" /\ FindingCount(result) > 0) =>
        result.riskLevel =
            (IF TopSeverity(result) = "HIGH" \/ result.riskScore >= 60 THEN "HIGH"
             ELSE IF TopSeverity(result) = "MEDIUM" \/ result.riskScore >= 30 THEN "MEDIUM"
             ELSE "LOW")

C6_Witness ==
    /\ pc = "done"
    /\ input.conditions = <<"Hypertension">>
    /\ input.bpSystolic = 140 /\ input.bpDiastolic = 90
    /\ FindingCount(result) = 1
    /\ result.riskScore = 25
    /\ result.riskLevel = "MEDIUM"

(***************************************************************************)
(* The engine on other rule tables: ruleDB with one more row.              *)
(***************************************************************************)
Severities == {"HIGH", "MEDIUM", "LOW"}

ExtraRules ==
    { Rule("diabetes-dose", "dosing", sev, "", "", "diabetes", "", "Adjust the dose.") :
        sev \in Severities }
    \cup { Rule("diabetes", "contra", sev, "", "", "diabetes", "", "Review glycaemic control.") :
        sev \in Severities }
    \cup { Rule("alpha+cyp3a4", "interaction", sev, "alphaBlockers", "cyp3a4Inhibitors", "", "",
                "Monitor blood pressure.") : sev \in Severities }

RuleTables == {ruleDB} \cup { ruleDB \o <<r>> : r \in ExtraRules }

TableInputs ==
    { PatientData(m, <<>>, c, age, 22, <<140, 90>>, s, "moderate", "regular") :
        m \in SubSeqsUpTo(<<"tamsulosin", "ritonavir">>, MaxMeds),
        c \in SubSeqsUpTo(<<"diabetes", "Kidney Disease">>, MaxConditions),
        age \in Ages, s \in SmokingValues }

InitTables ==
    /\ ruleTable \in RuleTables
    /\ input \in TableInputs
    /\ pc = "intake"
    /\ result = NoResult
    /\ other = [t |-> "undefined"]
    /\ clientResult = [t |-> "undefined"]
    /\ activeModel = "mock"
    /\ step = "intake"
    /\ alertShown = ""
    /\ reviewedPlan = [t |-> "null"]
    /\ interactionsResp = [t |-> "undefined"]
    /\ reply = [status |-> 0]
    /\ reviewForm = NoForm
    /\ env = NoEnv
    /\ baseList = <<>>
    /\ incomingList = <<>>
    /\ mergedList = <<>>
    /\ remergedList = <<>>

SpecTables == InitTables /\ [][Next]_vars

DRUG_CLASSES(className) ==
    CASE className = "pde5i" -> <<"sildenafil", "tadalafil", "vardenafil", "avanafil">>
      [] className = "nitrates" ->
            <<"nitroglycerin", "isosorbide", "isosorbide dinitrate", "isosorbide mononitrate">>
      [] className = "alphaBlockers" -> <<"tamsulosin", "doxazosin", "terazosin", "alfuzosin">>
      [] className = "cyp3a4Inhibitors" ->
            <<"ketoconazole", "itraconazole", "ritonavir", "cobicistat", "clarithromycin">>
      [] OTHER -> <<>>

DRUG_RULE_DB ==
    << Rule("nitrates+pde5i", "interaction", "HIGH", "nitrates", "pde5i", "", "",
            "Risk of profound hypotension; avoid co-administration."),
       Rule("alpha+pde5i", "interaction", "MEDIUM", "alphaBlockers", "pde5i", "", "",
            "Additive hypotension; separate dosing and start low."),
       Rule("cyp3a4+pde5i", "interaction", "MEDIUM", "cyp3a4Inhibitors", "pde5i", "", "",
            "Higher PDE5i levels; use lowest dose and monitor."),
       Rule("pregnancy+pde5i", "contra", "MEDIUM", "", "", "pregnant", "pde5i",
            "Safety in pregnancy not established; avoid PDE5 inhibitors."),
       Rule("renal+pde5i", "dosing", "MEDIUM", "", "", "kidney disease", "",
            "Max 2.5-5mg daily; monitor closely.") >>

SEVERITY_WEIGHT(sev) ==
    CASE sev = "HIGH" -> 40
      [] sev = "MEDIUM" -> 20
      [] sev = "LOW" -> 10
      [] OTHER -> 0

\* split on [,;], trim, lowercase, drop the empty ones
jsNormalizeList(text) ==
    LET mapped == [i \in DOMAIN text |-> ToLower(TrimSpace(text[i]))]
    IN SelectSeq(mapped, LAMBDA t : t # "")

jsHasClassToken(tokens, classList) ==
    \E i \in DOMAIN tokens : \E j \in DOMAIN classList : Contains(tokens[i], classList[j])

jsHasClassTokenByName(tokens, className) ==
    jsHasClassToken(tokens, DRUG_CLASSES(className))

jsRunSafetyEngine(data) ==
    LET meds == jsNormalizeList(data.medications)
        allergies == jsNormalizeList(data.allergies)
        conditions == [i \in DOMAIN data.conditions |-> ToLower(data.conditions[i])]
        includes(c) == \E i \in DOMAIN conditions : conditions[i] = c
        age == data.age           \* Number(data.age) || null; null >= 65 is false
        bpSys == data.bpSystolic
        bpDia == data.bpDiastolic
        bmi == data.bmi
        smoking == ToLower(data.smoking)
        alcohol == ToLower(data.alcohol)
        exercise == ToLower(data.exercise)
        hasPDE5i == jsHasClassToken(meds, DRUG_CLASSES("pde5i"))
        hasNitrates == jsHasClassToken(meds, DRUG_CLASSES("nitrates"))
        hasAlphaBlocker == jsHasClassToken(meds, DRUG_CLASSES("alphaBlockers"))
        hasCyp3a4Inhibitor == jsHasClassToken(meds, DRUG_CLASSES("cyp3a4Inhibitors"))
        pregnant == includes("pregnant")
        kidneyDisease == includes("kidney disease")
        liverDisease == includes("liver disease")
        heartDisease == includes("heart disease")
        hypertension == includes("hypertension")
        allergyToPde5i == jsHasClassToken(allergies, DRUG_CLASSES("pde5i"))
        allergyToNitrates == jsHasClassToken(allergies, DRUG_CLASSES("nitrates"))
        ruleI(rule) ==
            If(/\ rule.type = "interaction"
               /\ jsHasClassTokenByName(meds, rule.match.drugClassA)
               /\ jsHasClassTokenByName(meds, rule.match.drugClassB),
               Interaction(rule.match.drugClassA \o "+" \o rule.match.drugClassB,
                           rule.severity, rule.note))
        ruleC(rule) ==
            LET condMatch == rule.match.condition # "" /\ includes(rule.match.condition)
                drugMatch == IF rule.match.requiresDrugClass # ""
                             THEN jsHasClassTokenByName(meds, rule.match.requiresDrugClass)
                             ELSE TRUE
            IN If(rule.type = "contra" /\ condMatch /\ drugMatch,
                  Contraindication(rule.match.condition, rule.severity, rule.note))
        ruleD(rule) ==
            If(rule.type = "dosing" /\ rule.match.condition # ""
                 /\ includes(rule.match.condition),
               DosingConcern(rule.match.condition, rule.severity, rule.note))
        severeBP == bpSys >= 170 \/ bpDia >= 110
        elevatedBP == ~severeBP /\ (bpSys >= 150 \/ bpDia >= 95)
        interactions ==
            If(hasPDE5i /\ hasNitrates,
               Interaction("Nitrates + PDE5i", "HIGH",
                           "Risk of profound hypotension; avoid co-administration."))
            \o If(hasPDE5i /\ hasAlphaBlocker,
                  Interaction("Alpha-blocker + PDE5i", "MEDIUM",
                              "Additive hypotension; separate dosing and start low."))
            \o If(hasPDE5i /\ hasCyp3a4Inhibitor,
                  Interaction("Strong CYP3A4 inhibitor + PDE5i", "MEDIUM",
                              "Higher PDE5i levels; use lowest dose and monitor."))
            \o FlatMap(ruleI, DRUG_RULE_DB)
        contraindications ==
            FlatMap(ruleC, DRUG_RULE_DB)
            \o If(hasNitrates,
                  Contraindication("Nitrate therapy", "HIGH",
                      "Concurrent nitrate use contraindicates PDE5 inhibitors due to hypotension risk."))
            \o If(severeBP,
                  Contraindication("Severely elevated BP", "HIGH",
                      "Uncontrolled hypertension; PDE5 inhibitors contraindicated."))
            \o If(elevatedBP,
                  Contraindication("Elevated BP", "MEDIUM",
                      "Elevated blood pressure; use lowest dose and monitor."))
            \o If(allergyToPde5i,
                  Contraindication("PDE5 inhibitor allergy", "HIGH",
                                   "Do not prescribe PDE5 inhibitors."))
            \o If(allergyToNitrates,
                  Contraindication("Nitrate allergy", "HIGH",
                                   "Avoid nitrates and PDE5 co-prescribing."))
            \o If(pregnant,
                  Contraindication("Pregnancy", "MEDIUM",
                                   "Safety not established; avoid PDE5 inhibitors."))
            \o If(heartDisease,
                  Contraindication("Heart Disease", "MEDIUM",
                                   "Assess hemodynamic reserve; prefer low dose or alternative."))
            \o If(hypertension,
                  Contraindication("Hypertension", "MEDIUM",
                                   "Monitor BP; start low to avoid hypotension."))
        obese == bmi >= 35
        overweight == ~obese /\ bmi >= 30
        dosingConcerns ==
            FlatMap(ruleD, DRUG_RULE_DB)
            \o If(age # 0 /\ age >= 65,
                  DosingConcern("Age >65", "MEDIUM",
                                "Initiate at lowest dose; titrate cautiously."))
            \o If(kidneyDisease,
                  DosingConcern("Renal impairment", "MEDIUM",
                                "Max 2.5mg-5mg daily; monitor for hypotension."))
            \o If(liverDisease,
                  DosingConcern("Hepatic impairment", "MEDIUM",
                                "Use lowest dose; consider avoiding if severe."))
            \o If(obese,
                  DosingConcern("Obesity (BMI >=35)", "MEDIUM",
                                "Start lowest dose; monitor cardiovascular tolerance."))
            \o If(overweight,
                  DosingConcern("Overweight (BMI >=30)", "LOW",
                                "Start low; encourage weight management and monitoring."))
            \o If(smoking = "current",
                  DosingConcern("Smoking", "LOW",
                                "Counsel cessation; monitor CV risk with therapy."))
            \o If(alcohol = "heavy",
                  DosingConcern("Heavy alcohol use", "MEDIUM",
                                "Avoid concurrent dosing; monitor BP and sedation risk."))
            \o If(exercise = "none",
                  DosingConcern("Sedentary", "LOW",
                                "Encourage activity; monitor cardiometabolic risk."))
        riskBumps ==
            (IF severeBP THEN 10 ELSE IF elevatedBP THEN 5 ELSE 0)
            + (IF obese THEN 5 ELSE IF overweight THEN 2 ELSE 0)
            + (IF smoking = "current" THEN 2 ELSE 0)
            + (IF alcohol = "heavy" THEN 3 ELSE 0)
        allFindings ==
            [i \in DOMAIN interactions |-> interactions[i].severity]
            \o [i \in DOMAIN contraindications |-> contraindications[i].severity]
            \o [i \in DOMAIN dosingConcerns |-> dosingConcerns[i].severity]
        some(sev) == \E i \in DOMAIN allFindings : allFindings[i] = sev
        maxSeverity == IF some("HIGH") THEN "HIGH"
                       ELSE IF some("MEDIUM") THEN "MEDIUM" ELSE "LOW"
        score == Min(100, 5 + riskBumps + SumSeq(SEVERITY_WEIGHT, allFindings))
        riskLevel == IF maxSeverity = "HIGH" THEN "HIGH"
                     ELSE IF score >= 60 THEN "HIGH"
                     ELSE IF score >= 30 THEN "MEDIUM"
                     ELSE "LOW"
        fi(i) == <<"[" \o i.severity \o "] Interaction: " \o i.pair \o " - " \o i.note>>
        fc(c) == <<"[" \o c.severity \o "] Contraindication: " \o c.conditionOrAllergy
                   \o " - " \o c.note>>
        fd(d) == <<"[" \o d.severity \o "] Dosing: " \o d.factor \o " - " \o d.recommendation>>
        pushed == FlatMap(fi, interactions) \o FlatMap(fc, contraindications)
                  \o FlatMap(fd, dosingConcerns)
        issues == IF Len(pushed) = 0 THEN <<"None">> ELSE pushed
        highBlocker == (\E i \in DOMAIN interactions : interactions[i].severity = "HIGH")
                       \/ (\E i \in DOMAIN contraindications :
                              contraindications[i].severity = "HIGH")
        conservative == \/ age >= 65 \/ kidneyDisease \/ liverDisease \/ hasAlphaBlocker
                        \/ hasCyp3a4Inhibitor \/ hypertension \/ heartDisease
        medication == IF highBlocker THEN "None" ELSE "Tadalafil"
        dosage == IF highBlocker THEN "N/A"
                  ELSE IF conservative THEN "2.5mg Daily" ELSE "5mg Daily"
        duration == IF highBlocker THEN "N/A"
                    ELSE IF conservative THEN "30 Days" ELSE "90 Days"
        rationalePieces ==
            (IF medication = "None"
             THEN <<"Safety blockers present; pharmacotherapy deferred.">>
             ELSE <<"PDE5 inhibitor indicated; starting with conservative dosing due to risk factors.">>)
            \o If(age >= 65, "Age >65")
            \o If(kidneyDisease, "Renal impairment")
            \o If(liverDisease, "Hepatic impairment")
            \o If(hasAlphaBlocker, "Alpha-blocker co-therapy")
            \o If(hasCyp3a4Inhibitor, "CYP3A4 inhibitor present")
            \o If(heartDisease, "Cardiovascular history")
            \o If(pregnant, "Pregnancy")
        joined == JoinWith("; ", rationalePieces)
        confidenceScore == Max(72, 120 - score)
        planConfidence == IF highBlocker THEN 48 ELSE confidenceScore
        alternativesWithConfidence ==
            IF medication = "None"
            THEN << [option |-> "Vacuum erection device", confidence |-> 78],
                    [option |-> "Specialist referral", confidence |-> 84] >>
            ELSE << [option |-> "Sildenafil 25mg on demand", confidence |-> 84],
                    [option |-> "Vardenafil 10mg", confidence |-> 78],
                    [option |-> "Behavioral therapy", confidence |-> 72] >>
    IN [riskScore |-> score,
        riskLevel |-> riskLevel,
        issues |-> issues,
        interactions |-> interactions,
        contraindications |-> contraindications,
        dosingConcerns |-> dosingConcerns,
        plan |-> [medication |-> medication,
                  dosage |-> dosage,
                  duration |-> duration,
                  rationale |-> IF joined = "" THEN "Standard protocol." ELSE joined],
        alternatives |-> alternativesWithConfidence,
        confidenceScore |-> confidenceScore,
        recommendationConfidence |-> [plan |-> planConfidence],
        source |-> "rules"]

(***************************************************************************)
(* JavaScript values: what JSON.parse can return and what the client's     *)
(* code builds from it.  Numbers that stand for confidences are in units   *)
(* of 1/120.                                                               *)
(***************************************************************************)
Undefined == [t |-> "undefined"]

Null == [t |-> "null"]

NaN == [t |-> "nan"]

Num(n) == [t |-> "number", n |-> n]

Str(s) == [t |-> "string", s |-> s]

Arr(a) == [t |-> "array", a |-> a]

Obj(o) == [t |-> "object", o |-> o]

Throw(name) == [t |-> "throw", name |-> name]

\* property read v.f on a value that is not null or undefined
Get(v, f) == IF v.t = "object" /\ f \in DOMAIN v.o THEN v.o[f] ELSE Undefined

Truthy(v) ==
    CASE v.t \in {"undefined", "null", "nan"} -> FALSE
      [] v.t = "number" -> v.n # 0
      [] v.t = "string" -> v.s # ""
      [] OTHER -> TRUE

Nullish(v) == v.t \in {"undefined", "null"}

\* Number("85") = 85, Number of any other text of the model is NaN
NumberOfString(s) == IF s = "85" THEN Num(85) ELSE IF s = "" THEN Num(0) ELSE NaN

ToNumber(v) ==
    CASE v.t = "number" -> v
      [] v.t = "string" -> NumberOfString(v.s)
      [] v.t = "null" -> Num(0)
      [] v.t = "array" -> (IF v.a = <<>> THEN Num(0) ELSE NaN)
      [] OTHER -> NaN

\* Math.max of two values
MathMax(x, y) ==
    LET a == ToNumber(x)
        b == ToNumber(y)
    IN IF a.t = "nan" \/ b.t = "nan" THEN NaN ELSE Num(Max(a.n, b.n))

\* the elements an iteration of v yields: the items of an array, the
\* characters of a string (the strings iterated in the model have one)
Elements(v) == IF v.t = "array" THEN v.a ELSE <<v.s>>

Iterable(v) == v.t \in {"array", "string"}

\* Array.from(new Set(s)): first occurrences, in order
RECURSIVE Dedupe(_)
Dedupe(s) ==
    IF s = <<>> THEN <<>>
    ELSE LET front == Dedupe(SubSeq(s, 1, Len(s) - 1))
             last == s[Len(s)]
         IN IF \E i \in DOMAIN front : front[i] = last THEN front
            ELSE Append(front, last)

\* the object a result of the client's engine is
ToJS(r) ==
    Obj([riskScore |-> Num(r.riskScore),
         riskLevel |-> Str(r.riskLevel),
         issues |-> Arr(r.issues),
         interactions |-> Arr(r.interactions),
         contraindications |-> Arr(r.contraindications),
         dosingConcerns |-> Arr(r.dosingConcerns),
         plan |-> Obj([medication |-> Str(r.plan.medication),
                       dosage |-> Str(r.plan.dosage),
                       duration |-> Str(r.plan.duration),
                       rationale |-> Str(r.plan.rationale)]),
         alternatives |-> Arr(r.alternatives),
         confidenceScore |-> Num(r.confidenceScore),
         recommendationConfidence |-> Obj([plan |-> Num(r.recommendationConfidence.plan)]),
         source |-> Str(r.source)])

ResultFields ==
    {"riskScore", "riskLevel", "issues", "interactions", "contraindications",
     "dosingConcerns", "plan", "alternatives", "confidenceScore",
     "recommendationConfidence", "source"}

(***************************************************************************)
(* The reconciler of the client (src/unnamed/part_001:838-895).            *)
(***************************************************************************)
\* rank[a] || 0
rankOrZero(v) ==
    IF v.t # "string" THEN 0
    ELSE CASE v.s = "LOW" -> 0
           [] v.s = "MEDIUM" -> 1
           [] v.s = "HIGH" -> 2
           [] OTHER -> 0

higherRiskLevel(a, b) == IF rankOrZero(a) >= rankOrZero(b) THEN a ELSE b

\* { ...rules, ...modelResult }: the own properties of an object model
\* result replace those of rules
spreadOver(rules, modelResult) ==
    [f \in ResultFields |->
        IF Get(modelResult, f).t # "undefined" THEN Get(modelResult, f) ELSE rules.o[f]]

authoritativeLists_Skipped(merged, rules) == merged

\* lines 842-844
authoritativeLists(merged, rules) ==
    [merged EXCEPT !.interactions = rules.o.interactions,
                   !.contraindications = rules.o.contraindications,
                   !.dosingConcerns = rules.o.dosingConcerns]

\* line 845, for an issues value that can be iterated
mergedIssues(modelIssues, rulesIssues) ==
    Arr(Dedupe((IF Truthy(modelIssues) THEN Elements(modelIssues) ELSE <<>>)
               \o (IF Truthy(rulesIssues) THEN Elements(rulesIssues) ELSE <<>>)))

\* line 849
mergedRiskScore(modelScore, rulesScore) ==
    MathMax(IF Truthy(modelScore) THEN modelScore ELSE Num(0),
            IF Truthy(rulesScore) THEN rulesScore ELSE Num(0))

\* lines 851-853
preferModel(modelValue, rulesValue) ==
    IF Truthy(modelValue) THEN modelValue ELSE rulesValue

preferModelUnlessNullish(modelValue, rulesValue) ==
    IF ~Nullish(modelValue) THEN modelValue ELSE rulesValue

\* line 854; the sources of the model are strings
mergedSource(modelSource) ==
    IF Truthy(modelSource) THEN Str(modelSource.s \o "+rules") ELSE Str("rules+model")

\* lines 840-856, rules being what runSafetyEngine(patientData) returned
mergeOver(rules, modelResult) ==
       IF Nullish(modelResult)
       THEN Throw("TypeError")           \* modelResult.issues of null
       ELSE IF Truthy(Get(modelResult, "issues")) /\ ~Iterable(Get(modelResult, "issues"))
       THEN Throw("TypeError")           \* spread of a value that is not iterable
       ELSE LET merged == authoritativeLists(spreadOver(rules, modelResult), rules)
            IN Obj([merged EXCEPT
                      !.issues = mergedIssues(Get(modelResult, "issues"), rules.o.issues),
                      !.riskLevel = higherRiskLevel(Get(modelResult, "riskLevel"),
                                                    rules.o.riskLevel),
                      !.riskScore = mergedRiskScore(Get(modelResult, "riskScore"),
                                                    rules.o.riskScore),
                      !.plan = preferModel(Get(modelResult, "plan"), rules.o.plan),
                      !.alternatives = preferModel(Get(modelResult, "alternatives"),
                                                   rules.o.alternatives),
                      !.confidenceScore =
                          preferModelUnlessNullish(Get(modelResult, "confidenceScore"),
                                                   rules.o.confidenceScore),
                      !.source = mergedSource(Get(modelResult, "source"))])

mergeWithRules(modelResult, patientData) ==
    mergeOver(ToJS(jsRunSafetyEngine(patientData)), modelResult)

allowedRiskLevels == {"LOW", "MEDIUM", "HIGH"}

ensureString(val, fallback) ==
    IF val.t = "string" /\ TrimSpace(val.s) # "" THEN val ELSE Str(fallback)

ensureNumber(val, fallback) ==
    IF val.t \in {"number", "nan"} THEN val ELSE Num(fallback)

ensureArray(val) == IF val.t = "array" THEN val ELSE Arr(<<>>)

\* the plan block of validateSchema (lines 880-887)
coercePlan(p) ==
    LET plan == IF Truthy(p) /\ p.t \in {"object", "array"} THEN p ELSE Obj(<<>>)
    IN Obj([medication |-> ensureString(Get(plan, "medication"), "None"),
            dosage |-> ensureString(Get(plan, "dosage"), "Not specified"),
            duration |-> ensureString(Get(plan, "duration"), "Not specified"),
            rationale |-> ensureString(Get(plan, "rationale"), "No plan generated.")])

\* validateSchema changes data in place; the value here is data afterwards,
\* or the error thrown
validateSchema(data) ==
    IF ~Truthy(data) \/ data.t \notin {"object", "array"}
    THEN Throw("Error")
    ELSE LET rest == IF data.t = "object" THEN DOMAIN data.o ELSE {}
             coerced == {"riskLevel", "riskScore", "confidenceScore", "plan", "issues",
                         "interactions", "contraindications", "dosingConcerns",
                         "alternatives"}
         IN Obj([f \in rest \cup coerced |->
                  CASE f = "riskLevel" ->
                         (IF Get(data, f).t = "string" /\ Get(data, f).s \in allowedRiskLevels
                          THEN Get(data, f) ELSE Str("MEDIUM"))
                    [] f \in {"riskScore", "confidenceScore"} -> ensureNumber(Get(data, f), 0)
                    [] f = "plan" -> coercePlan(Get(data, f))
                    [] f \in {"issues", "interactions", "contraindications",
                              "dosingConcerns", "alternatives"} -> ensureArray(Get(data, f))
                    [] OTHER -> Get(data, f)])

(***************************************************************************)
(* Model results: well-formed ones, and ones that depart from them in at   *)
(* most MaxOddFields fields, or that are no object at all.                 *)
(***************************************************************************)
ModelSaysHigh ==
    [riskScore |-> Num(85),
     riskLevel |-> Str("HIGH"),
     issues |-> Arr(<<"Model: cardiovascular risk">>),
     interactions |-> Arr(<<Interaction("Model pair", "HIGH", "model note")>>),
     contraindications |-> Arr(<<>>),
     dosingConcerns |-> Arr(<<>>),
     plan |-> Obj([medication |-> Str("Sildenafil"), dosage |-> Str("50mg"),
                   duration |-> Str("14 Days"), rationale |-> Str("Model rationale")]),
     alternatives |-> Arr(<<[option |-> "Counselling", confidence |-> 60]>>),
     confidenceScore |-> Num(108),
     recommendationConfidence |-> Undefined,
     source |-> Str("gemini")]

ModelSaysLow ==
    [ModelSaysHigh EXCEPT !.riskScore = Num(10), !.riskLevel = Str("LOW"),
                          !.interactions = Arr(<<>>), !.source = Undefined]

OddFields ==
    <<"riskScore", "riskLevel", "issues", "interactions", "contraindications",
      "dosingConcerns", "plan", "alternatives", "confidenceScore">>

OddValues(f) ==
    CASE f = "riskScore" -> {Undefined, Null, Num(-5), Num(150), Str("85"), Str("high")}
      [] f = "riskLevel" -> {Undefined, Null, Str("CRITICAL"), Str("high"), Num(2), Str("MEDIUM")}
      [] f = "issues" -> {Undefined, Null, Num(3), Obj([count |-> Num(1)]), Str("x"),
                          Arr(<<"None">>)}
      [] f = "interactions" -> {Undefined, Null, Str("none")}
      [] f = "contraindications" ->
            {Undefined, Arr(<<Contraindication("Model contra", "HIGH", "model note")>>)}
      [] f = "dosingConcerns" -> {Undefined, Num(1)}
      [] f = "plan" -> {Undefined, Null, Str("Take sildenafil"), Arr(<<>>),
                        Obj([medication |-> Str("Sildenafil")]),
                        Obj([medication |-> Num(5), dosage |-> Str(" "),
                             duration |-> Null, rationale |-> Str("r")])}
      [] f = "alternatives" -> {Undefined, Null, Str("none"), Obj([option |-> Str("x")])}
      [] f = "confidenceScore" -> {Undefined, Null, Str("high"), Num(0)}
      [] OTHER -> {}

RECURSIVE OddObjects(_, _, _)
OddObjects(base, fields, k) ==
    IF fields = <<>> \/ k = 0 THEN {base}
    ELSE OddObjects(base, Tail(fields), k)
         \cup UNION { OddObjects([base EXCEPT ![Head(fields)] = v], Tail(fields), k - 1) :
                        v \in OddValues(Head(fields)) }

ModelResults ==
    { Obj(o) : o \in OddObjects(ModelSaysHigh, OddFields, MaxOddFields)
                     \cup OddObjects(ModelSaysLow, OddFields, MaxOddFields) }
    \cup {Null, Num(7), Str("error"), Arr(<<>>)}

MergeInputs ==
    { PatientData(m, <<>>, c, 40, 22, <<140, 90>>, "never", "moderate", "regular") :
        m \in SubSeqsUpTo(<<"Nitroglycerin", " Tadalafil">>, MaxMeds),
        c \in SubSeqsUpTo(<<"Kidney Disease", "Hypertension">>, MaxConditions) }

(***************************************************************************)
(* The reconciler applied to one model result and one intake.              *)
(***************************************************************************)
InitMerge ==
    /\ ruleTable = ruleDB
    /\ input \in MergeInputs
    /\ pc = "model"
    /\ result = NoResult
    /\ other \in ModelResults
    /\ clientResult = Undefined
    /\ activeModel = "gemini"
    /\ step = "intake"
    /\ alertShown = ""
    /\ reviewedPlan = [t |-> "null"]
    /\ interactionsResp = [t |-> "undefined"]
    /\ reply = [status |-> 0]
    /\ reviewForm = NoForm
    /\ env = NoEnv
    /\ baseList = <<>>
    /\ incomingList = <<>>
    /\ mergedList = <<>>
    /\ remergedList = <<>>

RunMergeWithRules ==
    /\ pc = "model"
    /\ clientResult' = mergeWithRules(other, input)
    /\ pc' = IF clientResult'.t = "throw" THEN "thrown" ELSE "merged"
    /\ UNCHANGED <<reviewForm, env, reply, listVars, ruleTable, input, result, other, pageVars>>

RunValidateSchema ==
    /\ pc = "merged"
    /\ clientResult' = validateSchema(clientResult)
    /\ pc' = IF clientResult'.t = "throw" THEN "thrown" ELSE "validated"
    /\ UNCHANGED <<reviewForm, env, reply, listVars, ruleTable, input, result, other, pageVars>>

NextMerge == RunMergeWithRules \/ RunValidateSchema

SpecMerge == InitMerge /\ [][NextMerge]_vars

\* what the client's engine returns for the intake at hand
RulesResult == jsRunSafetyEngine(input)

Reconciled == pc \in {"merged", "validated"}

\* C8: the interactions, contraindications and dosingConcerns of the result
\* of mergeWithRules are the lists the rule engine produced for the intake,
\* whatever the model result holds in these fields.
C8_FindingsFromRules ==
    Reconciled =>
        /\ clientResult.o.interactions = Arr(RulesResult.interactions)
        /\ clientResult.o.contraindications = Arr(RulesResult.contraindications)
        /\ clientResult.o.dosingConcerns = Arr(RulesResult.dosingConcerns)

C8_Witness ==
    /\ pc = "merged"
    /\ Get(other, "interactions").t = "array"
    /\ Get(other, "interactions").a # <<>>
    /\ Get(other, "contraindications").t = "array"
    /\ Get(other, "contraindications").a # <<>>
    /\ RulesResult.contraindications # <<>>
    /\ clientResult.o.interactions = Arr(RulesResult.interactions)
    /\ clientResult.o.contraindications = Arr(RulesResult.contraindications)

\* a level of the second source, LOW when missing or not recognised
LevelOrLow(v) ==
    IF v.t = "string" /\ v.s \in {"LOW", "MEDIUM", "HIGH"} THEN v.s ELSE "LOW"

LevelRank(l) == IF l = "HIGH" THEN 2 ELSE IF l = "MEDIUM" THEN 1 ELSE 0

HigherLevel(a, b) == IF LevelRank(a) >= LevelRank(b) THEN a ELSE b

\* C9: mergeWithRules returns as riskLevel the higher of the two levels, a
\* missing or unrecognised level of the second source counting as LOW, and
\* as riskScore the maximum of the two scores, a missing score counting as 0.
C9_HigherLevelMaxScore ==
    pc = "merged" =>
        /\ clientResult.o.riskLevel =
              Str(HigherLevel(LevelOrLow(Get(other, "riskLevel")), RulesResult.riskLevel))
        /\ Get(other, "riskScore").t = "number" =>
              clientResult.o.riskScore =
                  Num(Max(Get(other, "riskScore").n, RulesResult.riskScore))
        /\ Nullish(Get(other, "riskScore")) =>
              clientResult.o.riskScore = Num(RulesResult.riskScore)

PlanFields == {"medication", "dosage", "duration", "rationale"}

WellFormedPlan(v) ==
    v.t = "object" /\ \A f \in PlanFields : Get(v, f).t = "string"

\* C10: in the reconciled result plan, alternatives and confidenceScore are
\* the second source's values when these are present and well-formed, and
\* the rule engine's values otherwise.
C10_WellFormedElseRules ==
    pc = "validated" =>
        /\ clientResult.o.plan =
              (IF WellFormedPlan(Get(other, "plan"))
               THEN Get(other, "plan") ELSE ToJS(RulesResult).o.plan)
        /\ clientResult.o.alternatives =
              (IF Get(other, "alternatives").t = "array"
               THEN Get(other, "alternatives") ELSE Arr(RulesResult.alternatives))
        /\ clientResult.o.confidenceScore =
              (IF Get(other, "confidenceScore").t = "number"
               THEN Get(other, "confidenceScore") ELSE Num(RulesResult.confidenceScore))

(***************************************************************************)
(* The backend's boundary validation and its mock endpoint                *)
(* (src/Makefile:340-356, 992-1024).                                       *)
(***************************************************************************)
\* a validation that looks at the name only
validatePatientData_NameOnly(p) == If(TrimSpace(p.name) = "", "name")

\* the fields validatePatientData finds at fault, in the order it adds them
validatePatientData(p) ==
    If(TrimSpace(p.name) = "", "name")
    \o If(p.age < 0 \/ p.age > 120, "age")
    \o If(p.height < 0 \/ (p.height > 0 /\ (p.height < 90 \/ p.height > 250)), "height")
    \o If(p.weight < 0 \/ (p.weight > 0 /\ (p.weight < 25 \/ p.weight > 350)), "weight")
    \o If((p.bpSystolic > 0 /\ p.bpSystolic < 50) \/ (p.bpDiastolic > 0 /\ p.bpDiastolic < 30),
          "bloodPressure")
    \o If(containsString(lowerSlice(p.conditions), "hypertension")
          /\ (p.bpSystolic = 0 \/ p.bpDiastolic = 0), "bloodPressure")

\* POST /api/diagnostics/mock for a payload that binds
postDiagnosticsMock(payload) ==
    LET errs == validatePatientData(payload)
    IN IF errs # <<>>
       THEN [status |-> 422,
             body |-> Obj([error |-> Str("validation_failed"), issues |-> Arr(errs)])]
       ELSE [status |-> 200, body |-> ToJS(mockAnalyze(payload))]

(***************************************************************************)
(* The client's calls (src/unnamed/part_001:455-558).                      *)
(***************************************************************************)
\* callBackendMock (467-489): the ValidationError it raises for a 422 is
\* raised inside the try whose catch swallows it, so every response that
\* is not ok ends in the generic Error
callBackendMock(response) ==
    IF response.status # 200 THEN Throw("Error") ELSE response.body

\* item.f || '' on an entry of an interaction list
Field(item, f) == IF f \in DOMAIN item THEN item[f] ELSE ""

\* a rank that tells no severity from another
sevRank_Flat(severity) == 0

\* sevRank[severity] || 0
sevRank(severity) ==
    CASE severity = "HIGH" -> 2
      [] severity = "MEDIUM" -> 1
      [] OTHER -> 0

\* a key that tells the spellings of a pair apart
interactionKey_CaseSensitive(item) == Field(item, "pair") \o "|" \o Field(item, "note")

\* the key of an entry in the Map of mergeInteractionLists
interactionKey(item) == ToLower(Field(item, "pair")) \o "|" \o ToLower(Field(item, "note"))

\* { ...item, source: item.source || sourceLabel }
withSource(item, sourceLabel) ==
    [f \in DOMAIN item \cup {"source"} |->
        IF f = "source"
        THEN (IF Field(item, "source") # "" THEN item.source ELSE sourceLabel)
        ELSE item[f]]

\* pushAll (540-554) on the Map kept as the sequence of its entries in
\* insertion order
RECURSIVE pushAll(_, _, _)
pushAll(dedup, list, sourceLabel) ==
    IF list = <<>> THEN dedup
    ELSE LET item == Head(list)
             key == interactionKey(item)
             at == {i \in DOMAIN dedup : dedup[i].key = key}
             next ==
                 IF Field(item, "pair") = "" THEN dedup
                 ELSE IF at = {}
                 THEN Append(dedup, [key |-> key, value |-> withSource(item, sourceLabel)])
                 ELSE LET i == CHOOSE i \in at : TRUE
                      IN IF sevRank(Field(item, "severity"))
                              > sevRank(Field(dedup[i].value, "severity"))
                         THEN [dedup EXCEPT ![i].value = withSource(item, sourceLabel)]
                         ELSE dedup
         IN pushAll(next, Tail(list), sourceLabel)

mergeInteractionLists(base, incoming) ==
    LET dedup == pushAll(pushAll(<<>>, base, "rules"), incoming, "rxnav")
    IN [i \in DOMAIN dedup |-> dedup[i].value]

\* what fetchInteractionChecks returns without asking the service (518-521)
NoMedications == Obj([interactions |-> Arr(<<>>), warnings |-> Arr(<<>>), source |-> Str("none")])

\* a lookup whose failure costs the result its interactions
afterLookup_FailureClears(res, resp) ==
    IF resp.t = "throw" THEN Obj([res.o EXCEPT !.interactions = Arr(<<>>)]) ELSE res

\* lines 412-433 of analyze: the result after the lookup settled
afterLookup(res, resp) ==
    LET found == Get(resp, "interactions")
        warnings == Get(resp, "warnings")
    IN IF resp.t = "throw" THEN res
       ELSE IF warnings.t = "string" /\ warnings.s # "" THEN res   \* warnings.join throws
       ELSE IF found.t = "array" /\ found.a # <<>>
       THEN Obj([res.o EXCEPT !.interactions =
                    Arr(mergeInteractionLists(Elements(res.o.interactions), found.a))])
       ELSE res

\* the catch of analyze (435-451): the alert it raises
analyzeCatch(e) ==
    IF e.name = "ValidationError" THEN "Validation failed" ELSE "Analysis failed. Please retry."

(***************************************************************************)
(* One run of analyze (src/unnamed/part_001:337-452).                      *)
(***************************************************************************)
Names == {"", " ", "Alex"}

FormBloodPressures == {<<140, 90>>, <<40, 90>>, <<0, 0>>}

\* currentPatientData as analyze reads it from the form
AnalyzeInputs ==
    { [name |-> n, weight |-> 80, height |-> 180]
      @@ PatientData(m, <<>>, c, 40, 22, bp, "never", "moderate", "regular") :
        n \in Names,
        m \in SubSeqsUpTo(<<"Nitroglycerin", " Tadalafil">>, MaxMeds),
        c \in SubSeqsUpTo(<<"Hypertension">>, MaxConditions),
        bp \in FormBloodPressures }

\* what parseJsonStrict hands back from a model proxy that answered 200
ParsedBodies ==
    {Obj(ModelSaysHigh), Obj(ModelSaysLow), Obj([ModelSaysLow EXCEPT !.issues = Num(3)]),
     Obj([riskScore |-> Num(10)]), Null, Str("error")}

\* what the interaction service can answer with a 200
LookupBodies ==
    { Obj([interactions |-> Arr(l), warnings |-> Arr(<<>>)]) :
        l \in {<<>>,
               <<Interaction("Warfarin + Aspirin", "HIGH", "Bleeding risk")>>,
               <<Interaction("NITRATES + PDE5I", "MEDIUM",
                             "Risk of profound hypotension; avoid co-administration."),
                 [severity |-> "HIGH", note |-> "Bleeding risk"]>>} }
    \cup {Null, Obj([interactions |-> Str("none")]),
          Obj([interactions |-> Arr(<<Interaction("Warfarin + Aspirin", "LOW", "Bleeding risk")>>),
               warnings |-> Str("service degraded")])}

\* how fetchInteractionChecks fails: fetch rejects (TypeError), the status
\* is not 2xx, or parseJsonStrict finds the body empty or no JSON (Error)
LookupFailures == {Throw("TypeError"), Throw("Error")}

InitAnalyze ==
    /\ ruleTable = ruleDB
    /\ input \in AnalyzeInputs
    /\ pc = "form"
    /\ result = NoResult
    /\ other = Undefined
    /\ clientResult = Null
    /\ activeModel \in {"mock", "gemini", "openai"}
    /\ step = "intake"
    /\ alertShown = ""
    /\ reviewedPlan = Null
    /\ interactionsResp = Undefined
    /\ reply = [status |-> 0]
    /\ reviewForm = NoForm
    /\ env = NoEnv
    /\ baseList = <<>>
    /\ incomingList = <<>>
    /\ mergedList = <<>>
    /\ remergedList = <<>>

\* lines 338-348: the two checks that end analyze before anything is sent
formRefused ==
    IF input.name = "" THEN "ERROR: NAME_FIELD_MISSING"
    ELSE IF (input.bpSystolic # 0 /\ input.bpSystolic < 50)
            \/ (input.bpDiastolic # 0 /\ input.bpDiastolic < 30)
    THEN "ERROR: INVALID_BLOOD_PRESSURE_VALUES"
    ELSE ""

AnalyzeRefused ==
    /\ pc = "form"
    /\ formRefused # ""
    /\ alertShown' = formRefused
    /\ pc' = "finished"
    /\ UNCHANGED <<reviewForm, env, reply, listVars, ruleTable, input, result, other, clientResult, activeModel, step,
                   reviewedPlan, interactionsResp>>

\* lines 350-392: the processing step is shown and the call is sent
AnalyzeStarts ==
    /\ pc = "form"
    /\ formRefused = ""
    /\ step' = "processing"
    /\ pc' = "calling"
    /\ UNCHANGED <<reviewForm, env, reply, listVars, ruleTable, input, result, other, clientResult, activeModel,
                   alertShown, reviewedPlan, interactionsResp>>

\* the catch of analyze: back to the intake step with an alert, nothing rendered
Aborted(got, e) ==
    /\ other' = got
    /\ step' = "intake"
    /\ alertShown' = analyzeCatch(e)
    /\ pc' = "finished"
    /\ UNCHANGED <<reviewForm, env, reply, listVars, ruleTable, input, result, clientResult, activeModel, reviewedPlan,
                   interactionsResp>>

\* the proxies answer 422 to an intake that fails validation and 502/503
\* when the model cannot be reached; the call can fail in transit or come
\* back with a body that is empty or no JSON: callGemini, callOpenAI and
\* callBackendMock throw in each of these cases
ModelCallFails ==
    /\ pc = "calling"
    /\ \E e \in {Throw("Error"), Throw("TypeError")} : Aborted(e, e)

\* lines 405-410 and the catch: the result goes on to the lookup unless
\* mergeWithRules or validateSchema threw
Checked(body, validated) ==
    IF validated.t = "throw"
    THEN Aborted(body, validated)
    ELSE /\ other' = body
         /\ clientResult' = validated
         /\ pc' = "lookup"
         /\ UNCHANGED <<reviewForm, env, reply, listVars, ruleTable, input, result, activeModel, step, alertShown,
                        reviewedPlan, interactionsResp>>

Validated(body, merged) ==
    Checked(body, IF merged.t = "throw" THEN merged ELSE validateSchema(merged))

\* lines 396-410: the call answered 200 with JSON; mergeWithRules unless the
\* model is the mock, then validateSchema
ModelCallReturns ==
    /\ pc = "calling"
    /\ validatePatientData(input) = <<>>
    /\ \E body \in (IF activeModel = "mock"
                    THEN {callBackendMock(postDiagnosticsMock(input))}
                    ELSE ParsedBodies) :
          Validated(body, IF activeModel # "mock" THEN mergeWithRules(body, input) ELSE body)

\* lines 412-433: the interaction lookup settles, its failure is logged,
\* and the result is rendered on the results step
LookupSettles ==
    /\ pc = "lookup"
    /\ \E resp \in (IF input.medications = <<>> THEN {NoMedications}
                    ELSE LookupBodies \cup LookupFailures) :
          /\ interactionsResp' = resp
          /\ clientResult' = afterLookup(clientResult, resp)
    /\ reviewedPlan' = clientResult'
    /\ step' = "results"
    /\ pc' = "finished"
    /\ UNCHANGED <<reviewForm, env, reply, listVars, ruleTable, input, result, other, activeModel, alertShown>>

NextAnalyze == AnalyzeRefused \/ AnalyzeStarts \/ ModelCallFails \/ ModelCallReturns
               \/ LookupSettles

SpecAnalyze == InitAnalyze /\ [][NextAnalyze]_vars

\* the model call of the run threw although the intake is one the proxy accepts
ModelCallFailed ==
    /\ pc = "finished"
    /\ activeModel \in {"gemini", "openai"}
    /\ other.t = "throw"
    /\ validatePatientData(input) = <<>>

\* C7: whenever the call to Gemini or OpenAI fails, analyze still ends on
\* the results step, and what it rendered is the rule engine's own result
\* for the intake.
C7_ModelFailureFallsBack ==
    ModelCallFailed =>
        /\ step = "results"
        /\ reviewedPlan = ToJS(jsRunSafetyEngine(input))

(***************************************************************************)
(* Claims about the reconciler raising.                                    *)
(***************************************************************************)
\* the model result is a record (a JSON object), whatever its fields hold
SecondRecord == other.t = "object"

\* C11: for every record the model returns, whatever fields are missing,
\* extra, null or of the wrong type, mergeWithRules followed by
\* validateSchema returns a merged result and never throws.
C11_ReconcileNeverThrows == SecondRecord => pc # "thrown"

(***************************************************************************)
(* mergeInteractionLists applied to two interaction lists                  *)
(* (src/unnamed/part_001:538-558).                                         *)
(***************************************************************************)
\* entries {pair, severity, note}: two spellings of one pair, a second
\* pair, a second note, and an entry that has no pair
EntryVocab ==
    {Interaction("A+B", "MEDIUM", "n"), Interaction("A+B", "HIGH", "n"),
     Interaction("a+b", "HIGH", "n"), Interaction("A+B", "LOW", "m"),
     Interaction("C+D", "LOW", "n"), [severity |-> "HIGH", note |-> "n"]}

InteractionLists == UNION { [1..k -> EntryVocab] : k \in 0..MaxListLen }

InitLists ==
    /\ ruleTable = ruleDB
    /\ input = EverythingAtOnce
    /\ pc = "lists"
    /\ result = NoResult
    /\ other = Undefined
    /\ clientResult = Undefined
    /\ activeModel = "mock"
    /\ step = "intake"
    /\ alertShown = ""
    /\ reviewedPlan = Null
    /\ interactionsResp = Undefined
    /\ reply = [status |-> 0]
    /\ reviewForm = NoForm
    /\ env = NoEnv
    /\ baseList \in InteractionLists
    /\ incomingList \in InteractionLists
    /\ mergedList = <<>>
    /\ remergedList = <<>>

\* result.interactions = mergeInteractionLists(base, incoming)
MergeLists ==
    /\ pc = "lists"
    /\ mergedList' = mergeInteractionLists(baseList, incomingList)
    /\ pc' = "mergedOnce"
    /\ UNCHANGED <<reviewForm, env, ruleTable, input, result, clientVars, reply, baseList, incomingList,
                   remergedList>>

\* the merged list is merged with the first list once more
MergeAgain ==
    /\ pc = "mergedOnce"
    /\ remergedList' = mergeInteractionLists(mergedList, baseList)
    /\ pc' = "mergedTwice"
    /\ UNCHANGED <<reviewForm, env, ruleTable, input, result, clientVars, reply, baseList, incomingList,
                   mergedList>>

NextLists == MergeLists \/ MergeAgain

SpecLists == InitLists /\ [][NextLists]_vars

(***************************************************************************)
(* Claims about mergeInteractionLists.                                     *)
(***************************************************************************)
MergedOnce == pc \in {"mergedOnce", "mergedTwice"}

HasPair(e) == "pair" \in DOMAIN e /\ e.pair # ""

\* lowercased pair + "|" + lowercased note
KeyOf(e) == ToLower(IF "pair" \in DOMAIN e THEN e.pair ELSE "") \o "|" \o ToLower(e.note)

\* the keys of the entries of a list that have a pair
Keys(list) == {KeyOf(list[i]) : i \in {j \in DOMAIN list : HasPair(list[j])}}

\* the keys of all entries of a list
AllKeys(list) == {KeyOf(list[i]) : i \in DOMAIN list}

NoDuplicateKey(list) ==
    \A i, j \in DOMAIN list : KeyOf(list[i]) = KeyOf(list[j]) => i = j

SeverityRank(sev) == CASE sev = "HIGH" -> 3 [] sev = "MEDIUM" -> 2 [] sev = "LOW" -> 1

\* an entry without its source tag
Core(e) == [f \in DOMAIN e \ {"source"} |-> e[f]]

\* the entries of both inputs that have the key of e
SameKeyInputs(e) ==
    {x \in Range(baseList) \cup Range(incomingList) : HasPair(x) /\ KeyOf(x) = KeyOf(e)}

\* C12: the merged list has at most one entry per key, has every key of
\* either input whose entry has a pair, keeps for each key the highest
\* severity among the inputs' entries with that key, and tags the survivor
\* with the label of the list it came from ("rules" first, "rxnav" second).
C12_OnePerKeyHighestSeverity ==
    MergedOnce =>
        /\ NoDuplicateKey(mergedList)
        /\ Keys(baseList) \cup Keys(incomingList) \subseteq AllKeys(mergedList)
        /\ \A i \in DOMAIN mergedList :
              LET e == mergedList[i]
              IN /\ \A x \in SameKeyInputs(e) :
                        SeverityRank(e.severity) >= SeverityRank(x.severity)
                 /\ \/ e.source = "rules" /\ Core(e) \in Range(baseList)
                    \/ e.source = "rxnav" /\ Core(e) \in Range(incomingList)

C12_Witness ==
    /\ pc = "mergedOnce"
    /\ baseList = <<Interaction("A+B", "MEDIUM", "n")>>
    /\ incomingList = <<Interaction("A+B", "HIGH", "n")>>
    /\ mergedList = <<[pair |-> "A+B", severity |-> "HIGH", note |-> "n", source |-> "rxnav"]>>

\* the lists a list can be reordered into
Reorderings(list) ==
    {[i \in DOMAIN list |-> list[f[i]]] : f \in Permutations(DOMAIN list)}

\* a merged list as the set of its entries, source tags left out
AsSet(list) == {Core(list[i]) : i \in DOMAIN list}

\* C13: the merged entries (pair, severity, note) are the same whichever
\* order the entries stand in within each list and whichever of the two
\* lists is processed first.
C13_OrderIndependent ==
    pc = "mergedOnce" =>
        \A p \in Reorderings(baseList), q \in Reorderings(incomingList) :
            /\ AsSet(mergeInteractionLists(p, q)) = AsSet(mergedList)
            /\ AsSet(mergeInteractionLists(q, p)) = AsSet(mergedList)

\* a list merged with itself, and the outcome merged with it again
MergedWithItself == pc = "mergedTwice" /\ incomingList = baseList

\* C14 as stated: merge(L, L) has exactly the keys of L, none twice, and
\* merging the outcome with L again yields the same entries, tags included.
C14_IdempotentAllKeys ==
    MergedWithItself =>
        /\ AllKeys(mergedList) = AllKeys(baseList)
        /\ NoDuplicateKey(mergedList)
        /\ remergedList = mergedList

\* C14 amended: merge(L, L) has exactly the keys of the entries of L that
\* have a pair (entries without a pair are dropped), none twice, and merging
\* the outcome with L again yields the same entries, tags included.
C14_IdempotentOnPairs ==
    MergedWithItself =>
        /\ AllKeys(mergedList) = Keys(baseList)
        /\ NoDuplicateKey(mergedList)
        /\ remergedList = mergedList

C14_Witness ==
    /\ MergedWithItself
    /\ baseList = <<Interaction("A+B", "MEDIUM", "n"), Interaction("a+b", "HIGH", "n")>>
    /\ Len(mergedList) = 1
    /\ mergedList[1].severity = "HIGH"
    /\ remergedList = mergedList

(***************************************************************************)
(* One request to POST /api/diagnostics/mock (src/Makefile:340-356).       *)
(***************************************************************************)
\* a body ShouldBindJSON rejects: no JSON, or a field of the wrong type
Unbindable == [raw |-> "{name: 5"]

Binds(payload) == "name" \in DOMAIN payload

EndpointAges == {-1, 40, 65, 121}

EndpointHeights == {0, 80, 180}

EndpointWeights == {0, 20, 80}

EndpointBloodPressures == {<<0, 0>>, <<40, 90>>, <<140, 0>>, <<120, 20>>, <<140, 90>>}

\* the PatientData a JSON body binds to
EndpointPayloads ==
    { [name |-> n, weight |-> w, height |-> h]
      @@ PatientData(m, <<>>, c, age, 22, bp, "never", "moderate", "regular") :
        n \in Names, w \in EndpointWeights, h \in EndpointHeights, age \in EndpointAges,
        bp \in EndpointBloodPressures,
        m \in SubSeqsUpTo(<<"Nitroglycerin", " Tadalafil">>, MaxMeds),
        c \in SubSeqsUpTo(<<"Hypertension", "Kidney Disease">>, MaxConditions) }

InitEndpoint ==
    /\ ruleTable = ruleDB
    /\ input \in EndpointPayloads \cup {Unbindable}
    /\ pc = "request"
    /\ result = NoResult
    /\ other = Undefined
    /\ clientResult = Undefined
    /\ activeModel = "mock"
    /\ step = "intake"
    /\ alertShown = ""
    /\ reviewedPlan = Null
    /\ interactionsResp = Undefined
    /\ reply = [status |-> 0]
    /\ reviewForm = NoForm
    /\ env = NoEnv
    /\ baseList = <<>>
    /\ incomingList = <<>>
    /\ mergedList = <<>>
    /\ remergedList = <<>>

\* the handler: 400 when the body does not bind, 422 when validation finds
\* errors, else mockAnalyze and 200; result is set when the engine ran
PostDiagnosticsMock ==
    /\ pc = "request"
    /\ reply' = IF Binds(input) THEN postDiagnosticsMock(input)
                ELSE [status |-> 400, body |-> Obj([error |-> Str("invalid payload")])]
    /\ result' = IF Binds(input) /\ validatePatientData(input) = <<>>
                 THEN mockAnalyze(input) ELSE result
    /\ pc' = "answered"
    /\ UNCHANGED <<reviewForm, env, ruleTable, input, clientVars, listVars>>

NextEndpoint == PostDiagnosticsMock

SpecEndpoint == InitEndpoint /\ [][NextEndpoint]_vars

(***************************************************************************)
(* Claims about the endpoint.                                              *)
(***************************************************************************)
EngineRan == result # NoResult

\* the two failures of validation the claim names
NamelessOrPressureless(p) ==
    \/ p.name \in {"", " "}
    \/ /\ \E i \in DOMAIN p.conditions : p.conditions[i] = "Hypertension"
       /\ (p.bpSystolic = 0 \/ p.bpDiastolic = 0)

\* C15: the engine runs only for a payload that bound and passed
\* validatePatientData: a body that does not bind gets 400, a payload that
\* fails validation (an empty name, hypertension with a blood pressure of 0)
\* gets 422 {error: "validation_failed", issues: [...]} and no
\* DiagnosticResult, and only otherwise the engine's result comes with 200.
C15_EngineOnlyAfterValidation ==
    pc = "answered" =>
        /\ ~Binds(input) => reply.status = 400 /\ ~EngineRan
        /\ Binds(input) /\ NamelessOrPressureless(input) => reply.status = 422
        /\ Binds(input) /\ validatePatientData(input) # <<>> =>
              /\ reply.status = 422
              /\ reply.body.o.error = Str("validation_failed")
              /\ reply.body.o.issues.a # <<>>
              /\ "riskScore" \notin DOMAIN reply.body.o
              /\ ~EngineRan
        /\ reply.status = 200 <=> Binds(input) /\ validatePatientData(input) = <<>>
        /\ reply.status = 200 => EngineRan /\ reply.body = ToJS(result)
        /\ EngineRan => result = runSafetyEngineWith(ruleDB, input)

C15_Witness ==
    /\ pc = "answered"
    /\ reply.status = 422
    /\ input.name = "Alex"
    /\ input.conditions = <<"Hypertension">>
    /\ input.bpSystolic = 140
    /\ input.bpDiastolic = 0
    /\ reply.body.o.issues = Arr(<<"bloodPressure">>)
    /\ ~EngineRan

(***************************************************************************)
(* Claims about the plan, the findings and the confidence of the backend   *)
(* engine.                                                                 *)
(***************************************************************************)
\* the factors of the conservative tier, read off the intake
ConservativeFactor(d) ==
    \/ d.age >= 65
    \/ Mentions(d.conditions, {"Kidney Disease", "Liver Disease", "Hypertension",
                               "Heart Disease"})
    \/ Mentions(d.medications, {"tamsulosin", "ritonavir"})

\* C16: with no HIGH interaction or contraindication the medication is
\* "Tadalafil", with "2.5mg Daily" for "30 Days" iff age >= 65, kidney,
\* liver or heart disease, hypertension, an alpha-blocker or a CYP3A4
\* inhibitor is present, and "5mg Daily" for "90 Days" otherwise.
C16_ConservativeTier ==
    (pc = "done" /\ ~Blocked(result)) =>
        /\ result.plan.medication = "Tadalafil"
        /\ IF ConservativeFactor(input)
           THEN result.plan.dosage = "2.5mg Daily" /\ result.plan.duration = "30 Days"
           ELSE result.plan.dosage = "5mg Daily" /\ result.plan.duration = "90 Days"

C16_Witness ==
    /\ pc = "done"
    /\ input.conditions = <<"Hypertension">>
    /\ input.medications = <<>>
    /\ input.age = 40
    /\ input.bpSystolic = 140
    /\ result.plan.medication = "Tadalafil"
    /\ result.plan.dosage = "2.5mg Daily"
    /\ result.plan.duration = "30 Days"

B(cond) == IF cond THEN 1 ELSE 0

Takes(d, drug) == Mentions(d.medications, {drug})

Has(d, condition) == Mentions(d.conditions, {condition})

\* hard-coded interaction checks and table rows that match the intake
MatchingInteractions(d) ==
    2 * B(Takes(d, " Tadalafil") /\ Takes(d, "Nitroglycerin"))
    + 2 * B(Takes(d, " Tadalafil") /\ Takes(d, "tamsulosin"))
    + 2 * B(Takes(d, " Tadalafil") /\ Takes(d, "ritonavir"))

\* hard-coded contraindication checks, and the pregnancy row of the table
MatchingContraindications(d) ==
    B(Takes(d, "Nitroglycerin"))
    + B(d.bpSystolic >= 150 \/ d.bpDiastolic >= 95)
    + B(Mentions(d.allergies, {"Sildenafil"}))
    + B(Mentions(d.allergies, {"Isosorbide Dinitrate"}))
    + B(Has(d, "Pregnant")) + B(Has(d, "Heart Disease")) + B(Has(d, "Hypertension"))
    + B(Has(d, "Pregnant") /\ Takes(d, " Tadalafil"))

\* hard-coded dosing checks, and the renal row of the table
MatchingDosingConcerns(d) ==
    B(d.age >= 65) + 2 * B(Has(d, "Kidney Disease")) + B(Has(d, "Liver Disease"))
    + B(d.bmi >= 30) + B(d.smoking \in {"current", "Current"}) + B(d.alcohol = "heavy")
    + B(d.exercise = "none")

CountSeverity(r, sev) ==
    Cardinality({i \in DOMAIN AllFindings(r) : AllFindings(r)[i] = sev})

FormulaScore(r) ==
    Min(100, 5 + 40 * CountSeverity(r, "HIGH") + 20 * CountSeverity(r, "MEDIUM")
               + 10 * CountSeverity(r, "LOW"))

NotDeduplicated ==
    /\ Len(result.interactions) = MatchingInteractions(input)
    /\ Len(result.contraindications) = MatchingContraindications(input)
    /\ Len(result.dosingConcerns) = MatchingDosingConcerns(input)

\* C17 as stated: every matching table row and every matching hard-coded
\* check gives a finding of its own, and the score is
\* min(100, 5 + 40*#HIGH + 20*#MEDIUM + 10*#LOW) over all findings.
C17_NoDedupFormulaScore ==
    pc = "done" => NotDeduplicated /\ result.riskScore = FormulaScore(result)

\* C17 amended: every matching table row and every matching hard-coded
\* check gives a finding of its own; with at least one finding the score is
\* min(100, 5 + 40*#HIGH + 20*#MEDIUM + 10*#LOW) over all findings, and
\* with no finding it is 12.
C17_NoDedupScoreUnlessEmpty ==
    pc = "done" =>
        /\ NotDeduplicated
        /\ result.riskScore = IF FindingCount(result) = 0 THEN 12 ELSE FormulaScore(result)

C17_Witness ==
    /\ pc = "done"
    /\ input.medications = <<" Tadalafil", "tamsulosin">>
    /\ input.conditions = <<"Pregnant", "Kidney Disease">>
    /\ Len(result.interactions) = 2
    /\ Len(result.dosingConcerns) >= 2
    /\ Cardinality({i \in DOMAIN result.contraindications :
                       result.contraindications[i].severity = "MEDIUM"}) >= 2
    /\ result.riskScore = FormulaScore(result)

\* the clamped score 5 + sum of weights, before the zero-findings override
ClampedScore(r) == Min(100, RawScore(r))

\* C18: in units of 1/120, confidenceScore = max(72, 120 - s) with s the
\* clamped score before the zero-findings override;
\* recommendationConfidence.plan equals confidenceScore when a medication is
\* issued and is 48 (0.4) when the medication is "None".
C18_ConfidenceFormula ==
    pc = "done" =>
        /\ result.confidenceScore = Max(72, 120 - ClampedScore(result))
        /\ result.recommendationConfidence.plan =
              (IF result.plan.medication = "None" THEN 48 ELSE result.confidenceScore)

C18_Witness ==
    /\ pc = "done"
    /\ result.plan.medication = "None"
    /\ ClampedScore(result) = 45
    /\ result.confidenceScore = 75
    /\ result.recommendationConfidence.plan = 48

(***************************************************************************)
(* The backend engine on intakes that differ in blood pressure.            *)
(***************************************************************************)
Systolics == {0, 149, 150, 169, 170, 200}

Diastolics == {0, 94, 95, 109, 110}

PressureInputs ==
    { PatientData(m, <<>>, c, 40, 22, <<sys, dia>>, "never", "moderate", "regular") :
        m \in SubSeqsUpTo(<<"Nitroglycerin", " Tadalafil">>, MaxMeds),
        c \in SubSeqsUpTo(<<"Hypertension">>, MaxConditions),
        sys \in Systolics, dia \in Diastolics }

InitPressure ==
    /\ ruleTable = ruleDB
    /\ input \in PressureInputs
    /\ pc = "intake"
    /\ result = NoResult
    /\ other = Undefined
    /\ clientResult = Undefined
    /\ activeModel = "mock"
    /\ step = "intake"
    /\ alertShown = ""
    /\ reviewedPlan = Null
    /\ interactionsResp = Undefined
    /\ reply = [status |-> 0]
    /\ reviewForm = NoForm
    /\ env = NoEnv
    /\ baseList = <<>>
    /\ incomingList = <<>>
    /\ mergedList = <<>>
    /\ remergedList = <<>>

SpecPressure == InitPressure /\ [][Next]_vars

\* how many contraindications of the result carry a label
CountLabel(r, label) ==
    Cardinality({i \in DOMAIN r.contraindications :
                    r.contraindications[i].conditionOrAllergy = label})

SeverityOfLabel(r, label) ==
    {r.contraindications[i].severity :
        i \in {j \in DOMAIN r.contraindications :
                  r.contraindications[j].conditionOrAllergy = label}}

\* C19: systolic >= 170 or diastolic >= 110 gives exactly one HIGH
\* "Severely elevated BP" (and riskLevel HIGH, medication "None"); otherwise
\* systolic >= 150 or diastolic >= 95 gives exactly one MEDIUM "Elevated BP";
\* otherwise no blood-pressure contraindication; never the two together.
C19_BloodPressureTiers ==
    pc = "done" =>
        IF input.bpSystolic >= 170 \/ input.bpDiastolic >= 110
        THEN /\ CountLabel(result, "Severely elevated BP") = 1
             /\ SeverityOfLabel(result, "Severely elevated BP") = {"HIGH"}
             /\ CountLabel(result, "Elevated BP") = 0
             /\ result.riskLevel = "HIGH"
             /\ result.plan.medication = "None"
        ELSE IF input.bpSystolic >= 150 \/ input.bpDiastolic >= 95
        THEN /\ CountLabel(result, "Elevated BP") = 1
             /\ SeverityOfLabel(result, "Elevated BP") = {"MEDIUM"}
             /\ CountLabel(result, "Severely elevated BP") = 0
        ELSE /\ CountLabel(result, "Elevated BP") = 0
             /\ CountLabel(result, "Severely elevated BP") = 0

C19_Witness ==
    /\ pc = "done"
    /\ input.bpSystolic = 149
    /\ input.bpDiastolic = 110
    /\ input.medications = <<>>
    /\ CountLabel(result, "Severely elevated BP") = 1
    /\ result.riskLevel = "HIGH"
    /\ result.plan.medication = "None"

(***************************************************************************)
(* The backend engine on intakes that differ in body mass and lifestyle.   *)
(***************************************************************************)
LifestyleBmis == {0, 29, 30, 34, 35, 36}

LifestyleSmoking == {"never", "current", "Current"}

LifestyleAlcohol == {"none", "moderate", "heavy"}

\* "sedentary" is the value the API description gives for exercise
LifestyleExercise == {"regular", "none", "sedentary"}

LifestyleInputs ==
    { PatientData(<<>>, <<>>, c, 40, bmi, <<140, 90>>, s, al, e) :
        c \in SubSeqsUpTo(<<"Kidney Disease">>, MaxConditions),
        bmi \in LifestyleBmis, s \in LifestyleSmoking,
        al \in LifestyleAlcohol, e \in LifestyleExercise }

InitLifestyle ==
    /\ ruleTable = ruleDB
    /\ input \in LifestyleInputs
    /\ pc = "intake"
    /\ result = NoResult
    /\ other = Undefined
    /\ clientResult = Undefined
    /\ activeModel = "mock"
    /\ step = "intake"
    /\ alertShown = ""
    /\ reviewedPlan = Null
    /\ interactionsResp = Undefined
    /\ reply = [status |-> 0]
    /\ reviewForm = NoForm
    /\ env = NoEnv
    /\ baseList = <<>>
    /\ incomingList = <<>>
    /\ mergedList = <<>>
    /\ remergedList = <<>>

SpecLifestyle == InitLifestyle /\ [][Next]_vars

\* the dosing concerns of the result that carry a factor, and their issue lines
ConcernsOf(r, factor) ==
    {i \in DOMAIN r.dosingConcerns : r.dosingConcerns[i].factor = factor}

IssueLine(d) == "[" \o d.severity \o "] Dosing: " \o d.factor \o " - " \o d.recommendation

\* the concern is reported once, with the severity, in dosingConcerns and in issues
Reported(r, factor, severity) ==
    /\ Cardinality(ConcernsOf(r, factor)) = 1
    /\ \A i \in ConcernsOf(r, factor) :
          /\ r.dosingConcerns[i].severity = severity
          /\ \E k \in DOMAIN r.issues : r.issues[k] = IssueLine(r.dosingConcerns[i])

Unreported(r, factor) ==
    /\ ConcernsOf(r, factor) = {}
    /\ \A k \in DOMAIN r.issues, sev \in {"LOW", "MEDIUM", "HIGH"} :
          \A n \in 1..Len(r.issues[k]) :
             SubSeq(r.issues[k], 1, n) # "[" \o sev \o "] Dosing: " \o factor

\* an intake whose only findings can be body mass and lifestyle
OnlyLifestyle(d) ==
    /\ d.medications = <<>> /\ d.allergies = <<>> /\ d.conditions = <<>>
    /\ d.age < 65 /\ d.bpSystolic < 150 /\ d.bpDiastolic < 95

LifestyleWeights(d) ==
    20 * B(d.bmi >= 35) + 10 * B(d.bmi >= 30 /\ d.bmi < 35)
    + 10 * B(ToLower(TrimSpace(d.smoking)) = "current")
    + 20 * B(ToLower(TrimSpace(d.alcohol)) = "heavy")
    + 10 * B(ToLower(TrimSpace(d.exercise)) = "none")

\* C20: a MEDIUM obesity concern iff BMI >= 35, a LOW overweight concern iff
\* 30 <= BMI < 35 (never both), a LOW smoking concern iff smoking is "current"
\* in any letter case, a MEDIUM heavy-alcohol concern iff alcohol is "heavy";
\* each is in the dosing concerns and in the issues, and adds its weight
\* (MEDIUM 20, LOW 10) to the score.
C20_BmiAndLifestyleConcerns ==
    pc = "done" =>
        /\ IF input.bmi >= 35
           THEN Reported(result, "Obesity (BMI >=35)", "MEDIUM")
           ELSE Unreported(result, "Obesity (BMI >=35)")
        /\ IF input.bmi >= 30 /\ input.bmi < 35
           THEN Reported(result, "Overweight (BMI >=30)", "LOW")
           ELSE Unreported(result, "Overweight (BMI >=30)")
        /\ IF ToLower(TrimSpace(input.smoking)) = "current"
           THEN Reported(result, "Smoking", "LOW")
           ELSE Unreported(result, "Smoking")
        /\ IF ToLower(TrimSpace(input.alcohol)) = "heavy"
           THEN Reported(result, "Heavy alcohol use", "MEDIUM")
           ELSE Unreported(result, "Heavy alcohol use")
        /\ (OnlyLifestyle(input) /\ LifestyleWeights(input) > 0)
              => result.riskScore = 5 + LifestyleWeights(input)

C20_Witness ==
    /\ pc = "done"
    /\ input.bmi = 35 /\ input.smoking = "Current" /\ input.alcohol = "heavy"
    /\ input.exercise = "regular" /\ input.conditions = <<>>
    /\ Reported(result, "Obesity (BMI >=35)", "MEDIUM")
    /\ Unreported(result, "Overweight (BMI >=30)")
    /\ Reported(result, "Smoking", "LOW")
    /\ Reported(result, "Heavy alcohol use", "MEDIUM")
    /\ result.riskScore = 55

\* the exercise statuses that denote no exercise
NoExercise(d) == ToLower(TrimSpace(d.exercise)) \in {"none", "sedentary"}

\* C21: an intake whose exercise status denotes no exercise, given as "none"
\* or as "sedentary", gets a LOW "Sedentary" dosing concern.
C21_SedentaryConcern ==
    (pc = "done" /\ NoExercise(input)) => Reported(result, "Sedentary", "LOW")

(***************************************************************************)
(* The interaction lookup at the end of analyze                            *)
(* (src/unnamed/part_001:412-433).                                         *)
(***************************************************************************)
\* C22: a failure of the interaction lookup does not abort the run: the
\* validated result is rendered on the results step with its interactions,
\* riskLevel, riskScore and plan as they were before the lookup.
C22_LookupFailureKeepsResult ==
    [][(pc = "lookup" /\ interactionsResp'.t = "throw") =>
          /\ step' = "results"
          /\ alertShown' = ""
          /\ reviewedPlan'.o.interactions = clientResult.o.interactions
          /\ reviewedPlan'.o.riskLevel = clientResult.o.riskLevel
          /\ reviewedPlan'.o.riskScore = clientResult.o.riskScore
          /\ reviewedPlan'.o.plan = clientResult.o.plan]_vars

C22_Witness ==
    /\ pc = "finished"
    /\ interactionsResp.t = "throw"
    /\ step = "results"
    /\ activeModel = "gemini"
    /\ reviewedPlan.t = "object"
    /\ reviewedPlan.o.interactions.a # <<>>
    /\ reviewedPlan.o.riskLevel = Str("HIGH")

(***************************************************************************)
(* The review of a rendered result, finalizeReview and isPDE5Drug          *)
(* (src/unnamed/part_001:1063-1091).                                       *)
(***************************************************************************)
\* Number(text) of the confidence field, in units of 1/120
NumberOfConfidence(text) ==
    CASE text = "-0.2" -> Num(-24)
      [] text = "0" -> Num(0)
      [] text = "0.5" -> Num(60)
      [] text = "0.65" -> Num(78)
      [] text = "0.7" -> Num(84)
      [] text = "0.9" -> Num(108)
      [] text = "1.5" -> Num(180)
      [] text = "" -> Num(0)
      [] OTHER -> NaN

\* lines 1087-1091
isPDE5Drug(name) ==
    IF name = "" THEN FALSE
    ELSE \E i \in DOMAIN DRUG_CLASSES("pde5i") : Contains(ToLower(name), DRUG_CLASSES("pde5i")[i])

\* a review that applies no floor
reviewFloor_None(planConf, planIsPDE5, hasHardBlocker) == planConf

\* lines 1076-1078: the floor under the confidence of the reviewed plan
reviewFloor(planConf, planIsPDE5, hasHardBlocker) ==
    IF ~planIsPDE5 /\ ~hasHardBlocker /\ planConf < 84 THEN 84 ELSE planConf

\* value || fallback on a text field of the form
FieldOr(text, fallback) == IF text # "" THEN Str(text) ELSE fallback

\* lines 1063-1081: reviewedPlan after finalizeReview read the form
finalizeReview(reviewed, form) ==
    LET r == reviewed.o
        planMed == FieldOr(form.med, Get(r.plan, "medication"))
        entered == NumberOfConfidence(form.confidence)
        planConf == IF entered.t = "nan"
                    THEN (IF Truthy(r.confidenceScore) THEN r.confidenceScore.n ELSE 108)
                    ELSE entered.n
        rc == IF Truthy(r.recommendationConfidence) /\ r.recommendationConfidence.t = "object"
              THEN r.recommendationConfidence.o ELSE [plan |-> Undefined]
        contraindications == IF Truthy(r.contraindications) /\ r.contraindications.t = "array"
                             THEN r.contraindications.a ELSE <<>>
        hasHardBlocker == \E i \in DOMAIN contraindications :
                             Field(contraindications[i], "severity") = "HIGH"
        floored == reviewFloor(planConf, isPDE5Drug(planMed.s), hasHardBlocker)
    IN Obj([f \in DOMAIN r \cup {"reviewer"} |->
              CASE f = "plan" ->
                     Obj([medication |-> planMed,
                          dosage |-> FieldOr(form.dose, Get(r.plan, "dosage")),
                          duration |-> FieldOr(form.duration, Get(r.plan, "duration")),
                          rationale |-> FieldOr(form.rationale, Get(r.plan, "rationale"))])
                [] f = "recommendationConfidence" -> Obj([rc EXCEPT !.plan = Num(floored)])
                [] f = "confidenceScore" -> Num(Min(120, Max(0, floored)))
                [] f = "reviewer" -> FieldOr(form.reviewer, Str("UNKNOWN_REVIEWER"))
                [] OTHER -> r[f]])

\* what the reviewer can leave in the fields of the form
ReviewMedications == {"", "Tadalafil", "Amlodipine"}

ConfidenceTexts == {"-0.2", "0", "0.5", "0.65", "0.7", "0.9", "1.5", "", "abc"}

ReviewForms ==
    { [read |-> TRUE, reviewer |-> "", med |-> m, dose |-> "", duration |-> "",
       rationale |-> "", confidence |-> c] :
        m \in ReviewMedications, c \in ConfidenceTexts }

\* the reviewer finalizes the result that renderResults was given
FinalizeReview ==
    /\ pc = "finished"
    /\ step = "results"
    /\ \E form \in ReviewForms :
          /\ reviewForm' = form
          /\ reviewedPlan' = finalizeReview(reviewedPlan, form)
    /\ pc' = "reviewed"
    /\ UNCHANGED <<env, reply, listVars, ruleTable, input, result, other, clientResult,
                   activeModel, step, alertShown, interactionsResp>>

NextReview == NextAnalyze \/ FinalizeReview

SpecReview == InitAnalyze /\ [][NextReview]_vars

\* the confidence the reviewer entered, for the texts that are numbers
EnteredNumber == reviewForm.confidence \in (ConfidenceTexts \ {"", "abc"})

ReviewedMedication == reviewedPlan.o.plan.o.medication.s

ReviewedIsPde5 == ToLower(ReviewedMedication) \in Range(pde5iClass)

HighContraindication ==
    \E i \in DOMAIN reviewedPlan.o.contraindications.a :
        reviewedPlan.o.contraindications.a[i].severity = "HIGH"

\* C23: after finalizeReview, if the reviewed medication is no PDE5
\* inhibitor and the result has no HIGH contraindication,
\* recommendationConfidence.plan is at least 0.7; in every other case it is
\* the value the reviewer entered.
C23_ReviewConfidenceFloor ==
    (pc = "reviewed" /\ EnteredNumber) =>
        LET conf == reviewedPlan.o.recommendationConfidence.o.plan.n
            entered == NumberOfConfidence(reviewForm.confidence).n
        IN IF ~ReviewedIsPde5 /\ ~HighContraindication
           THEN conf >= 84 /\ (entered >= 84 => conf = entered)
           ELSE conf = entered

C23_Witness ==
    /\ pc = "reviewed"
    /\ reviewForm.confidence = "0.5"
    /\ reviewForm.med = "Amlodipine"
    /\ ~HighContraindication
    /\ reviewedPlan.o.recommendationConfidence.o.plan = Num(84)
    /\ reviewedPlan.o.plan.o.medication = Str("Amlodipine")

(***************************************************************************)
(* GET /api/config (src/Makefile:411-443).                                 *)
(***************************************************************************)
\* lines 414-418
modelAvailability(e) ==
    [mock |-> TRUE, gemini |-> e.GEMINI_API_KEY # "", openai |-> e.OPENAI_API_KEY # ""]

\* lines 413 and 420-435
defaultModelOf(e) ==
    LET envDefault == ToLower(e.DEFAULT_MODEL)
        available == modelAvailability(e)
        chosen == IF /\ envDefault # ""
                     /\ envDefault # "mock"
                     /\ envDefault \in DOMAIN available
                     /\ available[envDefault]
                  THEN envDefault ELSE ""
    IN IF chosen # "" THEN chosen
       ELSE IF available["openai"] THEN "openai"
       ELSE IF available["gemini"] THEN "gemini"
       ELSE "mock"

\* lines 437-442
getConfig(e) ==
    [status |-> 200,
     body |-> [defaultModel |-> defaultModelOf(e), models |-> modelAvailability(e),
               llmProxy |-> TRUE]]

DefaultModels == {"", "gemini", "openai", "mock", "Gemini", "OPENAI", "claude"}

ApiKeys == {"", "key-1", "key-2"}

Environments ==
    { [set |-> TRUE, DEFAULT_MODEL |-> d, GEMINI_API_KEY |-> g, OPENAI_API_KEY |-> o] :
        d \in DefaultModels, g \in ApiKeys, o \in ApiKeys }

InitConfig ==
    /\ ruleTable = ruleDB
    /\ input = EverythingAtOnce
    /\ pc = "request"
    /\ result = NoResult
    /\ other = Undefined
    /\ clientResult = Undefined
    /\ activeModel = "mock"
    /\ step = "intake"
    /\ alertShown = ""
    /\ reviewedPlan = Null
    /\ interactionsResp = Undefined
    /\ reply = [status |-> 0]
    /\ reviewForm = NoForm
    /\ env \in Environments
    /\ baseList = <<>>
    /\ incomingList = <<>>
    /\ mergedList = <<>>
    /\ remergedList = <<>>

GetConfig ==
    /\ pc = "request"
    /\ reply' = getConfig(env)
    /\ pc' = "answered"
    /\ UNCHANGED <<reviewForm, env, ruleTable, input, result, clientVars, listVars>>

NextConfig == GetConfig

SpecConfig == InitConfig /\ [][NextConfig]_vars

\* the model of the name is available in the environment
Available(name) ==
    \/ name = "mock"
    \/ name = "gemini" /\ env.GEMINI_API_KEY # ""
    \/ name = "openai" /\ env.OPENAI_API_KEY # ""

\* C24: for each value of DEFAULT_MODEL among gemini, openai and mock whose
\* model is available, the defaultModel returned is that value, whatever
\* other keys are set; and the defaultModel returned is always a model whose
\* availability flag is true.
C24_DefaultModelControls ==
    pc = "answered" =>
        /\ (env.DEFAULT_MODEL \in {"gemini", "openai", "mock"} /\ Available(env.DEFAULT_MODEL))
              => reply.body.defaultModel = env.DEFAULT_MODEL
        /\ reply.body.models[reply.body.defaultModel]

(***************************************************************************)
(* The rationale of the plan (src/Makefile:847-878, 906-911).              *)
(***************************************************************************)
LeadingClause(r) ==
    IF r.plan.medication = "None"
    THEN "Safety blockers present; pharmacotherapy deferred."
    ELSE "PDE5 inhibitor indicated; starting conservatively due to risk factors."

\* the clauses of the factors that hold, read off the intake, in the fixed order
FactorClauses(d) ==
    If(d.age >= 65, "Age >65")
    \o If(Mentions(d.conditions, {"Kidney Disease"}), "Renal impairment")
    \o If(Mentions(d.conditions, {"Liver Disease"}), "Hepatic impairment")
    \o If(Mentions(d.medications, {"tamsulosin"}), "Alpha-blocker co-therapy")
    \o If(Mentions(d.medications, {"ritonavir"}), "CYP3A4 inhibitor present")
    \o If(Mentions(d.conditions, {"Heart Disease"}), "Cardiovascular history")
    \o If(Mentions(d.conditions, {"Pregnant"}), "Pregnancy")

ConservativePlan(r) == r.plan.medication # "None" /\ r.plan.dosage = "2.5mg Daily"

\* the rationale is the leading clause and the clauses of the factors, in order
RationaleInOrder ==
    pc = "done" =>
        result.plan.rationale = JoinWith("; ", <<LeadingClause(result)>> \o FactorClauses(input))

\* C25: the rationale is the semicolon-joined sequence of the leading
\* clause (deferred iff medication is "None", else indicated) and one clause
\* per factor that holds, in the order age, renal, hepatic, alpha-blocker,
\* CYP3A4, cardiovascular history, pregnancy; every factor of the
\* conservative tier has a clause, so the rationale of a conservative-tier
\* plan is never the leading clause alone.
C25_RationaleNamesEveryFactor ==
    /\ RationaleInOrder
    /\ (pc = "done" /\ ConservativePlan(result))
          => result.plan.rationale # LeadingClause(result)

(***************************************************************************)
(* Claims about what the reconciler returns                                *)
(* (src/unnamed/part_001:838-857, 868-895).                                *)
(***************************************************************************)
\* C26: the riskScore of every result of mergeWithRules followed by
\* validateSchema is a number within [0,100], also when the riskScore of
\* the second source is negative, above 100 or no number.
C26_ReconciledScoreInRange ==
    pc = "validated" =>
        /\ clientResult.o.riskScore.t = "number"
        /\ clientResult.o.riskScore.n >= 0
        /\ clientResult.o.riskScore.n <= 100

\* C27: when the rule engine's interactions or contraindications for the
\* intake hold a HIGH entry, the plan of the reconciled result has
\* medication "None": a plan of the model never brings back a medication
\* the rule engine blocked.
C27_BlockedStaysBlocked ==
    (Reconciled /\ Blocked(RulesResult)) =>
        Get(Get(clientResult, "plan"), "medication") = Str("None")

(***************************************************************************)
(* What analyze renders once the lookup was merged in                      *)
(* (src/unnamed/part_001:412-433, 538-558).                                *)
(***************************************************************************)
Rendered == pc = "finished" /\ step = "results"

LookupMerged ==
    /\ interactionsResp.t = "object"
    /\ Get(interactionsResp, "interactions").t = "array"
    /\ Get(interactionsResp, "interactions").a # <<>>

RenderedHighInteraction ==
    \E i \in DOMAIN reviewedPlan.o.interactions.a :
        Field(reviewedPlan.o.interactions.a[i], "severity") = "HIGH"

\* C28: when the interactions of the result rendered after the lookup was
\* merged in hold a HIGH entry, from either source, the rendered riskLevel
\* is HIGH and the rendered plan has medication "None".
C28_LookupHighReflected ==
    (Rendered /\ LookupMerged /\ RenderedHighInteraction) =>
        /\ reviewedPlan.o.riskLevel = Str("HIGH")
        /\ reviewedPlan.o.plan.o.medication = Str("None")

(***************************************************************************)
(* The two engines on one intake: runSafetyEngine of the backend           *)
(* (src/Makefile:575-924) and of the client (src/unnamed/part_001:641-836).*)
(***************************************************************************)
TwinInputs ==
    { PatientData(m, <<>>, c, age, bmi, bp, "never", al, "regular") :
        m \in SubSeqsUpTo(<<"Nitroglycerin", " Tadalafil">>, MaxMeds),
        c \in SubSeqsUpTo(<<"Kidney Disease", "Hypertension">>, MaxConditions),
        age \in {40, 65}, bmi \in {22, 36}, bp \in {<<140, 90>>, <<150, 90>>},
        al \in AlcoholValues }

InitTwins ==
    /\ ruleTable = ruleDB
    /\ input \in TwinInputs
    /\ pc = "intake"
    /\ result = NoResult
    /\ other = Undefined
    /\ clientResult = Undefined
    /\ activeModel = "mock"
    /\ step = "intake"
    /\ alertShown = ""
    /\ reviewedPlan = Null
    /\ interactionsResp = Undefined
    /\ reply = [status |-> 0]
    /\ reviewForm = NoForm
    /\ env = NoEnv
    /\ baseList = <<>>
    /\ incomingList = <<>>
    /\ mergedList = <<>>
    /\ remergedList = <<>>

\* the client's engine runs on the intake the backend's engine was given
ClientMockAnalyze ==
    /\ pc = "done"
    /\ clientResult' = jsRunSafetyEngine(input)
    /\ pc' = "both"
    /\ UNCHANGED <<reviewForm, env, reply, listVars, ruleTable, input, result, other, pageVars>>

NextTwins == MockAnalyze \/ ClientMockAnalyze

SpecTwins == InitTwins /\ [][NextTwins]_vars

SameFindings ==
    /\ result.interactions = clientResult.interactions
    /\ result.contraindications = clientResult.contraindications
    /\ result.dosingConcerns = clientResult.dosingConcerns

SamePlan ==
    /\ result.plan.medication = clientResult.plan.medication
    /\ result.plan.dosage = clientResult.plan.dosage
    /\ result.plan.duration = clientResult.plan.duration

\* C29: for every intake the client's engine and the backend's engine
\* return the same riskScore, the same riskLevel, the same three finding
\* lists and the same plan medication, dosage and duration.
C29_EnginesAgree ==
    pc = "both" =>
        /\ result.riskScore = clientResult.riskScore
        /\ result.riskLevel = clientResult.riskLevel
        /\ SameFindings
        /\ SamePlan

(***************************************************************************)
(* riskLevel and plan of one result (src/Makefile:817-822, 838-850).       *)
(***************************************************************************)
\* C30: whenever the engine reports riskLevel HIGH the plan issues no
\* medication; a plan that issues Tadalafil never comes with riskLevel
\* HIGH, also when HIGH is reached only through a riskScore of 60 or more
\* from MEDIUM and LOW findings.
C30_HighLevelIssuesNothing ==
    (pc = "done" /\ result.riskLevel = "HIGH") => result.plan.medication = "None"

====
